---- MODULE Spec2Model ----
(***************************************************************************)
(* The identity-document field extractor of self-exclusion-app             *)
(* (src/src/utils/idParser.ts) and the OCR client (utils/ocr.ts).          *)
(*                                                                         *)
(* Strings are sequences of one-character strings.  A text is the sequence *)
(* of its raw lines, i.e. the image of text.split('\n').  A JavaScript     *)
(* Date is an instant <<year, month, day, tick>> in UTC, tick counting the *)
(* TicksPerDay equal parts of a day; NaN is the invalid Date.  No output   *)
(* field of the program is ever the empty string, so Null (the empty       *)
(* sequence) stands for null, undefined and an absent field.               *)
(***************************************************************************)
EXTENDS Integers, Sequences, FiniteSets, TLC

VARIABLES
    now,     \* the instant every `new Date()` of the running call reads
    tz,      \* local time minus UTC, in ticks
    engine,  \* the JavaScript engine's Date.parse: "v8" or "strict"
    op,      \* "idle", or the name of the function that was just called
    arg,     \* the arguments of that call
    ret,     \* what the call returned
    earlier, \* a call made earlier, as an observer noted it: [op, arg, now, ret]
    db,      \* the database: [excluded_persons, audit_logs], each the rows in order
    tasks,   \* the server action each caller is running, and how far it has come
    started, \* the number of server actions called so far
    scanner  \* the ID scanner component: its React state and what it has set going

vars == <<now, tz, engine, op, arg, ret, earlier, db, tasks, started, scanner>>

(***************************************************************************)
(* Characters and strings                                                  *)
(***************************************************************************)
UpperSeq == <<"A","B","C","D","E","F","G","H","I","J","K","L","M",
              "N","O","P","Q","R","S","T","U","V","W","X","Y","Z">>
LowerSeq == <<"a","b","c","d","e","f","g","h","i","j","k","l","m",
              "n","o","p","q","r","s","t","u","v","w","x","y","z">>
DigitSeq == <<"0","1","2","3","4","5","6","7","8","9">>

Upper == {UpperSeq[i] : i \in 1..Len(UpperSeq)}
Lower == {LowerSeq[i] : i \in 1..Len(LowerSeq)}
Digit == {DigitSeq[i] : i \in 1..Len(DigitSeq)}
Letter == Upper \cup Lower
Space == {" ", "\t"}
Vowel == {"A", "E", "I", "O", "U", "a", "e", "i", "o", "u"}
DateSeps == {"/", "-", "."}
SlashDash == {"/", "-"}

Null == <<>>

\* `const x = v; ...`: F of the local x, which is computed once
Let(v, F(_)) == F(v)

\* the upper-case letter of each lower-case letter
UpperOf == [c \in Lower |-> UpperSeq[CHOOSE i \in 1..Len(LowerSeq) : LowerSeq[i] = c]]

ToUpperChar(c) == IF c \in Lower THEN UpperOf[c] ELSE c

ToUpper(s) == [i \in 1..Len(s) |-> ToUpperChar(s[i])]

\* the value of each digit
ValueOf == [c \in Digit |-> (CHOOSE i \in 1..Len(DigitSeq) : DigitSeq[i] = c) - 1]

DigitVal(c) == ValueOf[c]

RECURSIVE ParseInt(_)
ParseInt(s) == IF s = <<>> THEN 0 ELSE 10 * ParseInt(SubSeq(s, 1, Len(s) - 1)) + DigitVal(s[Len(s)])

\* s.padStart(2, '0')
PadStart2(s) == IF Len(s) < 2 THEN <<"0">> \o s ELSE s

Min(a, b) == IF a <= b THEN a ELSE b

Abs(n) == IF n < 0 THEN 0 - n ELSE n

\* the least and the greatest element of a non-empty set of integers
Least(S) == CHOOSE x \in S : \A y \in S : x <= y
Greatest(S) == CHOOSE x \in S : \A y \in S : x >= y

\* every character of s[p .. p+n-1] exists and is a digit
DigitsAt(s, p, n) == p + n - 1 <= Len(s) /\ \A i \in p..(p + n - 1) : s[i] \in Digit

\* s.trim()
Trim(s) ==
    Let({i \in 1..Len(s) : s[i] \notin Space}, LAMBDA keep :
        IF keep = {} THEN <<>> ELSE SubSeq(s, Least(keep), Greatest(keep)))

\* s.includes(sub)
Includes(s, sub) ==
    \/ sub = <<>>
    \/ \E p \in 1..(Len(s) - Len(sub) + 1) :
           s[p] = sub[1] /\ SubSeq(s, p, p + Len(sub) - 1) = sub

\* s contains one of the words: /W1|W2|.../.test(s)
IncludesAny(s, words) == \E w \in words : Includes(s, w)

\* the characters of s from p on start with the literal w
LitAt(s, p, w) ==
    p + Len(w) - 1 <= Len(s) /\ \A i \in 1..Len(w) : s[p + i - 1] = w[i]

\* the index after the longest run of characters of class C that starts at p
RunEnd(s, p, C) ==
    CHOOSE e \in p..(Len(s) + 1) :
        /\ \A i \in p..(e - 1) : s[i] \in C
        /\ e = Len(s) + 1 \/ s[e] \notin C

\* words.join(' ')
RECURSIVE Join(_)
Join(words) ==
    IF words = <<>> THEN <<>>
    ELSE IF Len(words) = 1 THEN words[1]
    ELSE words[1] \o <<" ">> \o Join(Tail(words))

\* s.split(/\s+/): the pieces between the maximal runs of whitespace; a string
\* that starts (ends) with whitespace yields an empty first (last) piece.
RECURSIVE SplitFrom(_, _, _)
SplitFrom(s, i, cur) ==
    IF i > Len(s) THEN <<cur>>
    ELSE IF s[i] \in Space
         THEN IF i > 1 /\ s[i - 1] \in Space
              THEN SplitFrom(s, i + 1, cur)
              ELSE <<cur>> \o SplitFrom(s, i + 1, <<>>)
         ELSE SplitFrom(s, i + 1, Append(cur, s[i]))

SplitWS(s) == SplitFrom(s, 1, <<>>)

\* words.filter(w => w.length >= n)
RECURSIVE WordsOfLen(_, _)
WordsOfLen(words, n) ==
    IF words = <<>> THEN <<>>
    ELSE (IF Len(words[1]) >= n THEN <<words[1]>> ELSE <<>>) \o WordsOfLen(Tail(words), n)

(***************************************************************************)
(* Calendar and the Date object                                            *)
(***************************************************************************)
TicksPerDay == 2

MaxAgeYears == 120
MinAgeYears == 18
AdultAge == 18

NaN == <<>>

IsLeap(y) == (y % 4 = 0 /\ y % 100 # 0) \/ y % 400 = 0

DaysInMonth(y, m) ==
    IF m = 2 THEN (IF IsLeap(y) THEN 29 ELSE 28)
    ELSE IF m \in {4, 6, 9, 11} THEN 30 ELSE 31

NextDay(y, m, d) ==
    IF d < DaysInMonth(y, m) THEN <<y, m, d + 1>>
    ELSE IF m < 12 THEN <<y, m + 1, 1>> ELSE <<y + 1, 1, 1>>

PrevDay(y, m, d) ==
    IF d > 1 THEN <<y, m, d - 1>>
    ELSE IF m > 1 THEN <<y, m - 1, DaysInMonth(y, m - 1)>> ELSE <<y - 1, 12, 31>>

\* MakeDay: a day number past the end of its month runs over into the next month
MakeDay(y, m, d) ==
    IF d <= DaysInMonth(y, m) THEN <<y, m, d>>
    ELSE IF m < 12 THEN <<y, m + 1, d - DaysInMonth(y, m)>> ELSE <<y + 1, 1, d - 31>>

\* a < b on instants, on dates and on the index tuples of a nested loop
RECURSIVE Before(_, _)
Before(a, b) ==
    IF a = <<>> THEN FALSE
    ELSE IF a[1] # b[1] THEN a[1] < b[1] ELSE Before(Tail(a), Tail(b))

\* the first tuple of a non-empty set of tuples, in the order of Before
FirstOf(S) == CHOOSE x \in S : \A z \in S : x = z \/ Before(x, z)

\* the instant k ticks after instant i, for -TicksPerDay <= k <= TicksPerDay
AddTicks(i, k) ==
    LET t == i[4] + k
    IN  IF t < 0 THEN PrevDay(i[1], i[2], i[3]) \o <<t + TicksPerDay>>
        ELSE IF t >= TicksPerDay THEN NextDay(i[1], i[2], i[3]) \o <<t - TicksPerDay>>
        ELSE <<i[1], i[2], i[3], t>>

\* the local-time fields getFullYear(), getMonth() + 1, getDate() read
ToLocal(i) == AddTicks(i, tz)
FromLocal(l) == AddTicks(l, 0 - tz)

\* date.setFullYear(y): the local fields with the year replaced, through MakeDay
SetFullYear(i, y) ==
    Let(ToLocal(i), LAMBDA l : FromLocal(MakeDay(y, l[2], l[3]) \o <<l[4]>>))

IsIsoDateForm(s) ==
    /\ Len(s) = 10
    /\ DigitsAt(s, 1, 4) /\ s[5] = "-" /\ DigitsAt(s, 6, 2) /\ s[8] = "-" /\ DigitsAt(s, 9, 2)

\* The Date of the fields of a date-only string: UTC midnight of that date.  A
\* day of 29..31 that its month lacks runs over into the next month under V8
\* and is an invalid Date under an engine that checks the day against the month.
DateOfFields(y, m, d) ==
    IF m < 1 \/ m > 12 \/ d < 1 \/ d > 31 THEN NaN
    ELSE IF d > DaysInMonth(y, m) /\ engine = "strict" THEN NaN
    ELSE MakeDay(y, m, d) \o <<0>>

\* new Date(s)
ParseDate(s) ==
    IF ~IsIsoDateForm(s) THEN NaN
    ELSE DateOfFields(ParseInt(SubSeq(s, 1, 4)), ParseInt(SubSeq(s, 6, 7)),
                      ParseInt(SubSeq(s, 9, 10)))

(***************************************************************************)
(* Date Normalizer and Age Calculator                                      *)
(***************************************************************************)
\* \d{a}[seps]\d{b}[seps]\d{c} matches s at position p
DatePatFits(s, p, a, b, c, seps) ==
    /\ DigitsAt(s, p, a)
    /\ p + a <= Len(s) /\ s[p + a] \in seps
    /\ DigitsAt(s, p + a + 1, b)
    /\ p + a + b + 1 <= Len(s) /\ s[p + a + b + 1] \in seps
    /\ DigitsAt(s, p + a + b + 2, c)

\* /\d{la}[seps]\d{lb}[seps]\d{lc}/ at position p of s: the group lengths of
\* the match the regex engine finds first (each la, lb, lc lists the lengths
\* its quantifier allows, greediest first), or <<>> when there is none.
DatePatAt(s, p, la, lb, lc, seps) ==
    Let({x \in (1..Len(la)) \X (1..Len(lb)) \X (1..Len(lc)) :
            DatePatFits(s, p, la[x[1]], lb[x[2]], lc[x[3]], seps)}, LAMBDA choices :
        IF choices = {} THEN <<>>
        ELSE Let(FirstOf(choices), LAMBDA first :
                 <<la[first[1]], lb[first[2]], lc[first[3]]>>))

\* s.match(pattern) for the unanchored date pattern: <<start, la, lb, lc>> of
\* the leftmost match, or <<>>
DatePatMatch(s, la, lb, lc, seps) ==
    Let({p \in 1..Len(s) : s[p] \in Digit /\ DatePatAt(s, p, la, lb, lc, seps) # <<>>},
        LAMBDA starts :
            IF starts = {} THEN <<>>
            ELSE Let(Least(starts), LAMBDA p0 :
                     <<p0>> \o DatePatAt(s, p0, la, lb, lc, seps)))

\* the three captured groups of a match m of s
DateGroups(s, m) ==
    <<SubSeq(s, m[1], m[1] + m[2] - 1),
      SubSeq(s, m[1] + m[2] + 1, m[1] + m[2] + m[3]),
      SubSeq(s, m[1] + m[2] + m[3] + 2, m[1] + m[2] + m[3] + m[4] + 1)>>

\* the whole matched text of a match m of s
DateText(s, m) == SubSeq(s, m[1], m[1] + m[2] + m[3] + m[4] + 1)

\* IsoDate, were the month and the day not padded
IsoDate_NoPad(year, month, day) == year \o <<"-">> \o month \o <<"-">> \o day

\* `${year}-${month.padStart(2, '0')}-${day.padStart(2, '0')}`
IsoDate(year, month, day) ==
    year \o <<"-">> \o PadStart2(month) \o <<"-">> \o PadStart2(day)

normalizeDateFormat(dateStr) ==
    Let(DatePatMatch(dateStr, <<2, 1>>, <<2, 1>>, <<4>>, DateSeps), LAMBDA ddmmyyyy :
        IF ddmmyyyy # <<>>
        THEN Let(DateGroups(dateStr, ddmmyyyy), LAMBDA g : IsoDate(g[3], g[2], g[1]))
        ELSE Let(DatePatMatch(dateStr, <<4>>, <<2, 1>>, <<2, 1>>, DateSeps), LAMBDA yyyymmdd :
                 IF yyyymmdd # <<>>
                 THEN Let(DateGroups(dateStr, yyyymmdd), LAMBDA g : IsoDate(g[1], g[2], g[3]))
                 ELSE Null))

\* isValidDate, were the check against minDate left out
isValidDate_NoMinDate(dateStr) ==
    Let(ParseDate(dateStr), LAMBDA date :
        IF date = NaN THEN FALSE
        ELSE IF Before(now, date) THEN FALSE
        ELSE IF Before(SetFullYear(now, ToLocal(now)[1] - MinAgeYears), date) THEN FALSE
        ELSE TRUE)

isValidDate(dateStr) ==
    Let(ParseDate(dateStr), LAMBDA date :
        IF date = NaN THEN FALSE
        ELSE IF Before(now, date) THEN FALSE
        ELSE IF Before(date, SetFullYear(now, ToLocal(now)[1] - MaxAgeYears)) THEN FALSE
        ELSE IF Before(SetFullYear(now, ToLocal(now)[1] - MinAgeYears), date) THEN FALSE
        ELSE TRUE)

\* the age the local fields of the birth date and of today give
AgeBetween(dob, today) ==
    LET age == today[1] - dob[1]
        monthDiff == today[2] - dob[2]
    IN  IF monthDiff < 0 \/ (monthDiff = 0 /\ today[3] < dob[3]) THEN age - 1 ELSE age

\* calculateAge of a string new Date() accepts; of any other string it is NaN
calculateAge(dobString) == AgeBetween(ToLocal(ParseDate(dobString)), ToLocal(now))

\* calculateAge(dobString) >= 18, which is false of NaN
IsAdultAt(dobString) ==
    ParseDate(dobString) # NaN /\ calculateAge(dobString) >= AdultAge

(***************************************************************************)
(* The words of the exclusion lists and of the label patterns              *)
(***************************************************************************)
Word ==
    [DRIVER |-> <<"D","R","I","V","E","R">>,
     DRIVERS |-> <<"D","R","I","V","E","R","S">>,
     LICENCE |-> <<"L","I","C","E","N","C","E">>,
     LICENSE |-> <<"L","I","C","E","N","S","E">>,
     VICTORIA |-> <<"V","I","C","T","O","R","I","A">>,
     VICTORIAN |-> <<"V","I","C","T","O","R","I","A","N">>,
     AUSTRALIA |-> <<"A","U","S","T","R","A","L","I","A">>,
     AUSTRALIAN |-> <<"A","U","S","T","R","A","L","I","A","N">>,
     GOVERNMENT |-> <<"G","O","V","E","R","N","M","E","N","T">>,
     CARD |-> <<"C","A","R","D">>,
     NUMBER |-> <<"N","U","M","B","E","R">>,
     NO_DOT |-> <<"N","O",".">>,
     DATE |-> <<"D","A","T","E">>,
     OF |-> <<"O","F">>,
     BIRTH |-> <<"B","I","R","T","H">>,
     EXPIRY |-> <<"E","X","P","I","R","Y">>,
     ISSUE |-> <<"I","S","S","U","E">>,
     TYPE |-> <<"T","Y","P","E">>,
     ADDRESS |-> <<"A","D","D","R","E","S","S">>,
     RESTRICTIONS |-> <<"R","E","S","T","R","I","C","T","I","O","N","S">>,
     CONDITIONS |-> <<"C","O","N","D","I","T","I","O","N","S">>,
     CLASS |-> <<"C","L","A","S","S">>,
     SIGNATURE |-> <<"S","I","G","N","A","T","U","R","E">>,
     PHOTO |-> <<"P","H","O","T","O">>,
     CAR |-> <<"C","A","R">>,
     MOTORCYCLE |-> <<"M","O","T","O","R","C","Y","C","L","E">>,
     TRUCK |-> <<"T","R","U","C","K">>,
     BUS |-> <<"B","U","S">>,
     HEAVY |-> <<"H","E","A","V","Y">>,
     LIGHT |-> <<"L","I","G","H","T">>,
     MEDIUM |-> <<"M","E","D","I","U","M">>,
     RIDER |-> <<"R","I","D","E","R">>,
     CONDITION |-> <<"C","O","N","D","I","T","I","O","N">>,
     RESTRICTION |-> <<"R","E","S","T","R","I","C","T","I","O","N">>,
     NAME |-> <<"N","A","M","E">>,
     SURNAME |-> <<"S","U","R","N","A","M","E">>,
     GIVEN |-> <<"G","I","V","E","N">>,
     DOB |-> <<"D","O","B">>,
     BORN |-> <<"B","O","R","N">>,
     ID |-> <<"I","D">>,
     NO |-> <<"N","O">>]

\* extractName's excludeList
excludeList ==
    <<
       Join(<<Word.DRIVER, Word.LICENCE>>),
       Join(<<Word.DRIVER, Word.LICENSE>>),
       Join(<<Word.DRIVERS, Word.LICENCE>>),
       Join(<<Word.DRIVERS, Word.LICENSE>>),
       Word.VICTORIA,
       Word.VICTORIAN,
       Join(<<Word.VICTORIA, Word.AUSTRALIA>>),
       Word.AUSTRALIAN,
       Word.AUSTRALIA,
       Word.GOVERNMENT,
       Join(<<Word.CARD, Word.NUMBER>>),
       Join(<<Word.LICENSE, Word.NUMBER>>),
       Join(<<Word.LICENCE, Word.NUMBER>>),
       Join(<<Word.LICENSE, Word.NO_DOT>>),
       Join(<<Word.LICENCE, Word.NO_DOT>>),
       Join(<<Word.DATE, Word.OF, Word.BIRTH>>),
       Join(<<Word.EXPIRY, Word.DATE>>),
       Join(<<Word.ISSUE, Word.DATE>>),
       Word.EXPIRY,
       Join(<<Word.LICENCE, Word.EXPIRY>>),
       Join(<<Word.LICENSE, Word.EXPIRY>>),
       Join(<<Word.LICENCE, Word.TYPE>>),
       Join(<<Word.LICENSE, Word.TYPE>>),
       Word.ADDRESS,
       Word.RESTRICTIONS,
       Word.CONDITIONS,
       Word.CLASS,
       Word.SIGNATURE,
       Word.PHOTO,
       Word.CARD,
       Word.CAR,
       Word.MOTORCYCLE,
       Word.TRUCK,
       Word.BUS,
       Word.HEAVY,
       Word.LIGHT,
       Word.MEDIUM,
       Word.RIDER,
       Word.CONDITION,
       Word.RESTRICTION
    >>

\* parseIDCardDataWithPosition's excludeList
spatialExcludeList ==
    <<
       Join(<<Word.DRIVER, Word.LICENCE>>),
       Join(<<Word.DRIVER, Word.LICENSE>>),
       Join(<<Word.DRIVERS, Word.LICENCE>>),
       Join(<<Word.DRIVERS, Word.LICENSE>>),
       Word.VICTORIA,
       Word.VICTORIAN,
       Join(<<Word.VICTORIA, Word.AUSTRALIA>>),
       Word.AUSTRALIAN,
       Word.AUSTRALIA,
       Word.GOVERNMENT,
       Join(<<Word.CARD, Word.NUMBER>>),
       Join(<<Word.LICENSE, Word.NUMBER>>),
       Join(<<Word.LICENCE, Word.NUMBER>>),
       Join(<<Word.DATE, Word.OF, Word.BIRTH>>),
       Join(<<Word.EXPIRY, Word.DATE>>),
       Join(<<Word.ISSUE, Word.DATE>>),
       Word.EXPIRY,
       Join(<<Word.LICENCE, Word.EXPIRY>>),
       Join(<<Word.LICENSE, Word.EXPIRY>>),
       Join(<<Word.LICENCE, Word.TYPE>>),
       Join(<<Word.LICENSE, Word.TYPE>>),
       Word.ADDRESS,
       Word.RESTRICTIONS,
       Word.CONDITIONS,
       Word.CLASS,
       Word.SIGNATURE,
       Word.PHOTO,
       Word.CARD,
       Word.CAR,
       Word.MOTORCYCLE,
       Word.TRUCK,
       Word.BUS,
       Word.HEAVY,
       Word.LIGHT,
       Word.MEDIUM,
       Word.RIDER,
       Word.CONDITION,
       Word.RESTRICTION
    >>

(***************************************************************************)
(***************************************************************************)
(* Name Validator and Candidate Exclusion Dictionary                       *)
(***************************************************************************)
isValidName(name) ==
    Let(Trim(name), LAMBDA trimmed :
    Let(WordsOfLen(SplitWS(trimmed), 1), LAMBDA words :
        IF Len(trimmed) < 2 \/ Len(trimmed) > 50 THEN FALSE
        ELSE IF ~(\A i \in 1..Len(trimmed) : trimmed[i] \in Letter \cup Space) THEN FALSE
        ELSE IF Len(words) < 2 THEN FALSE
        ELSE IF \E i \in 1..Len(words) : Len(words[i]) < 2 THEN FALSE
        ELSE IF ~(\E i \in 1..Len(trimmed) : trimmed[i] \in Vowel) THEN FALSE
        ELSE TRUE))

isExcluded(name, list) ==
    Let(Trim(ToUpper(name)), LAMBDA upperName :
        \E k \in 1..Len(list) : upperName = list[k] \/ Includes(upperName, list[k]))

(***************************************************************************)
(* Text-Only Line Parser                                                   *)
(***************************************************************************)
\* text.split('\n').map(line => line.trim()).filter(Boolean)
RECURSIVE TextLines(_)
TextLines(text) ==
    IF text = <<>> THEN <<>>
    ELSE (IF Trim(text[1]) = <<>> THEN <<>> ELSE <<Trim(text[1])>>) \o TextLines(Tail(text))

\* NAMES? at position n of the upper-cased line U: the index after it, or 0
NamesEnd(U, n) ==
    IF ~LitAt(U, n, Word.NAME) THEN 0
    ELSE IF n + 4 <= Len(U) /\ U[n + 4] = "S" THEN n + 5 ELSE n + 4

\* The index after a label of labeledNamePattern that starts at p of the
\* upper-cased line U, (?:NAME|SURNAME|GIVEN\s*NAMES?), or 0.
NameLabelEnd(U, p) ==
    IF LitAt(U, p, Word.NAME) THEN p + 4
    ELSE IF LitAt(U, p, Word.SURNAME) THEN p + 7
    ELSE IF LitAt(U, p, Word.GIVEN) THEN NamesEnd(U, RunEnd(U, p + 5, Space))
    ELSE 0

\* [:\s]+([A-Z][A-Z\s]+) after a label that ends before e (0: no label), q
\* the index after the colons and spaces: the capture, or Null
NameCapture(line, e, q) ==
    IF e = 0 \/ q = e THEN Null
    ELSE IF q + 1 <= Len(line) /\ line[q] \in Letter /\ line[q + 1] \in Letter \cup Space
    THEN SubSeq(line, q, RunEnd(line, q, Letter \cup Space) - 1)
    ELSE Null

\* The capture of the match of labeledNamePattern that starts at p of the line
\* (U the line in upper case), or Null:
\* /(?:NAME|SURNAME|GIVEN\s*NAMES?)[:\s]+([A-Z][A-Z\s]+)/i
LabeledNameAt(line, U, p) ==
    Let(NameLabelEnd(U, p), LAMBDA e :
        NameCapture(line, e, RunEnd(line, e, {":"} \cup Space)))

\* line.match(labeledNamePattern)[1], or Null when the line does not match
LabeledNameMatch(line) ==
    Let(ToUpper(line), LAMBDA U :
    Let({p \in 1..Len(line) : LabeledNameAt(line, U, p) # Null}, LAMBDA starts :
        IF starts = {} THEN Null ELSE LabeledNameAt(line, U, Least(starts))))

\* a name that passes isValidName and the exclusion list, or else Null
AcceptedName(name) ==
    IF isValidName(name) /\ ~isExcluded(name, excludeList) THEN name ELSE Null

\* Pattern 1 on one line: the labelled name it yields, or Null
LabeledName(line) ==
    Let(LabeledNameMatch(line), LAMBDA match :
        IF match = Null THEN Null ELSE AcceptedName(Trim(match)))

IsCapsWord(s) == Len(s) >= 2 /\ \A i \in 1..Len(s) : s[i] \in Upper
IsCapsLine(s) == Len(s) >= 1 /\ \A i \in 1..Len(s) : s[i] \in Upper \cup Space
IsTitleWord(w) == Len(w) >= 2 /\ w[1] \in Upper /\ \A i \in 2..Len(w) : w[i] \in Lower

\* Pattern 1.5 without its checks against the exclusion list
PairName_NoExclusion(line1, line2) ==
    IF IsCapsWord(line1) /\ IsCapsWord(line2) /\ isValidName(line1 \o <<" ">> \o line2)
    THEN line1 \o <<" ">> \o line2
    ELSE Null

\* Pattern 1.5 on two successive lines: the name they combine to, or Null
PairName(line1, line2) ==
    IF /\ IsCapsWord(line1) /\ IsCapsWord(line2)
       /\ ~isExcluded(line1, excludeList)
       /\ ~isExcluded(line2, excludeList)
    THEN AcceptedName(line1 \o <<" ">> \o line2)
    ELSE Null

RECURSIVE TitleWords(_)
TitleWords(words) ==
    IF words = <<>> THEN <<>>
    ELSE (IF IsTitleWord(words[1]) THEN <<words[1]>> ELSE <<>>) \o TitleWords(Tail(words))

\* Pattern 3 on one line: the Title Case name it yields, in upper case, or Null
TitleName(line) ==
    Let(TitleWords(SplitWS(line)), LAMBDA words :
        IF Len(words) < 2 THEN Null ELSE ToUpper(AcceptedName(Join(words))))

\* /DRIVER|LICENCE|LICENSE|VICTORIA/i.test(line)
IsHeaderLine(line) ==
    IncludesAny(ToUpper(line), {Word.DRIVER, Word.LICENCE, Word.LICENSE, Word.VICTORIA})

\* /DATE|BIRTH|ADDRESS|EXPIRY|\d{2}[-\/]\d{2}[-\/]\d{4}/i.test(line)
IsDataLine(line) ==
    \/ IncludesAny(ToUpper(line), {Word.DATE, Word.BIRTH, Word.ADDRESS, Word.EXPIRY})
    \/ DatePatMatch(line, <<2>>, <<2>>, <<4>>, SlashDash) # <<>>

\* the score of a candidate at 0-based index i that has nWords words
ScoreOf(i, nWords, hasHeaderBefore, hasDataAfter) ==
    100
    + (IF hasHeaderBefore THEN 30 ELSE 0)
    - (IF i < 2 THEN 40 ELSE 0)
    + (IF nWords = 2 THEN 20 ELSE 0)
    + (IF nWords = 3 THEN 10 ELSE 0)
    + (IF hasDataAfter THEN 20 ELSE 0)
    + (IF i >= 2 /\ i <= 5 THEN 15 ELSE 0)

\* the contextual score of the all-caps line i
ContextScore(lines, i) ==
    ScoreOf(i - 1, Len(WordsOfLen(SplitWS(lines[i]), 1)),
            \E j \in 1..(i - 1) : IsHeaderLine(lines[j]),
            \E j \in (i + 1)..Len(lines) : IsDataLine(lines[j]))

IsCandidate(lines, i) ==
    /\ IsCapsLine(lines[i]) /\ Len(lines[i]) >= 4 /\ Len(lines[i]) <= 50
    /\ Len(WordsOfLen(SplitWS(lines[i]), 1)) >= 2
    /\ AcceptedName(lines[i]) # Null

\* a choice that takes the last of the best candidates
BestCandidate_Last(score) ==
    CHOOSE i \in DOMAIN score : \A j \in DOMAIN score :
        score[i] > score[j] \/ (score[i] = score[j] /\ i >= j)

\* candidates.sort((a, b) => b.score - a.score)[0], score the candidates'
\* scores: the sort is stable, so the earliest of the best
BestCandidate(score) ==
    CHOOSE i \in DOMAIN score : \A j \in DOMAIN score :
        score[i] > score[j] \/ (score[i] = score[j] /\ i <= j)

\* A ParseResult is [value, confidenceX4]: the confidence in quarters, since
\* 50 + score / 4 need not be whole.
NoResult == [value |-> Null, confidenceX4 |-> 0]

\* Pattern 3 and the final return of extractName
TitleCaseResult(lines) ==
    Let({i \in 1..Len(lines) : TitleName(lines[i]) # Null}, LAMBDA titled :
        IF titled = {} THEN NoResult
        ELSE [value |-> TitleName(lines[Least(titled)]), confidenceX4 |-> 4 * 70])

\* Pattern 2 of extractName and what follows it
ContextualResult(lines) ==
    Let([i \in {k \in 1..Len(lines) : IsCandidate(lines, k)} |-> ContextScore(lines, i)],
        LAMBDA score :
            IF DOMAIN score = {} THEN TitleCaseResult(lines)
            ELSE Let(BestCandidate(score), LAMBDA best :
                     [value |-> lines[best],
                      confidenceX4 |-> Min(4 * 85, 4 * 50 + score[best])]))

\* Pattern 1.5 of extractName and what follows it
PairResult(lines) ==
    Let({i \in 1..(Len(lines) - 1) : PairName(lines[i], lines[i + 1]) # Null}, LAMBDA pairs :
        IF pairs = {} THEN ContextualResult(lines)
        ELSE [value |-> PairName(lines[Least(pairs)], lines[Least(pairs) + 1]),
              confidenceX4 |-> 4 * 95])

\* extractName with Pattern 1.5 tried before Pattern 1
extractName_PairFirst(lines) ==
    Let({i \in 1..(Len(lines) - 1) : PairName(lines[i], lines[i + 1]) # Null}, LAMBDA pairs :
        IF pairs # {}
        THEN [value |-> PairName(lines[Least(pairs)], lines[Least(pairs) + 1]),
              confidenceX4 |-> 4 * 95]
        ELSE Let({i \in 1..Len(lines) : LabeledName(lines[i]) # Null}, LAMBDA labeled :
                 IF labeled = {} THEN ContextualResult(lines)
                 ELSE [value |-> LabeledName(lines[Least(labeled)]),
                       confidenceX4 |-> 4 * 90]))

extractName(lines) ==
    Let({i \in 1..Len(lines) : LabeledName(lines[i]) # Null}, LAMBDA labeled :
        IF labeled = {} THEN PairResult(lines)
        ELSE [value |-> LabeledName(lines[Least(labeled)]), confidenceX4 |-> 4 * 90])

\* OF\s*BIRTH at position n of the upper-cased line U: the index after it, or 0
OfBirthEnd(U, n) ==
    IF ~LitAt(U, n, Word.OF) THEN 0
    ELSE Let(RunEnd(U, n + 2, Space), LAMBDA b :
             IF LitAt(U, b, Word.BIRTH) THEN b + 5 ELSE 0)

\* The index after a label of the first dobPattern that starts at p of the
\* upper-cased line U, (?:DOB|DATE\s*OF\s*BIRTH|BORN), or 0.
DobLabelEnd(U, p) ==
    IF LitAt(U, p, Word.DOB) THEN p + 3
    ELSE IF LitAt(U, p, Word.DATE) THEN OfBirthEnd(U, RunEnd(U, p + 4, Space))
    ELSE IF LitAt(U, p, Word.BORN) THEN p + 4
    ELSE 0

\* [:\s]+(\d{1,2}[\/\-\.]\d{1,2}[\/\-\.]\d{4}) after a label that ends before
\* e (0: no label), q the index after the colons and spaces: the capture, or Null
DateCapture(line, e, q) ==
    IF e = 0 \/ q = e THEN Null
    ELSE Let(DatePatAt(line, q, <<2, 1>>, <<2, 1>>, <<4>>, DateSeps), LAMBDA g :
             IF g = <<>> THEN Null ELSE DateText(line, <<q>> \o g))

\* the match of /(?:DOB|DATE\s*OF\s*BIRTH|BORN)[:\s]+(\d{1,2}[\/\-\.]\d{1,2}[\/\-\.]\d{4})/i
\* that starts at p: the captured date, or Null
LabeledDateAt(line, U, p) ==
    Let(DobLabelEnd(U, p), LAMBDA e :
        DateCapture(line, e, RunEnd(line, e, {":"} \cup Space)))

\* line.match(dobPatterns[1])[1], or Null
LabeledDateMatch(line) ==
    Let(ToUpper(line), LAMBDA U :
    Let({p \in 1..Len(line) : LabeledDateAt(line, U, p) # Null}, LAMBDA starts :
        IF starts = {} THEN Null ELSE LabeledDateAt(line, U, Least(starts))))

\* the matched text of a date-pattern match m of the line, or Null
MatchedDate(line, m) == IF m = <<>> THEN Null ELSE DateText(line, m)

\* line.match(dobPatterns[k])[1], or Null
DobPatternMatch(line, k) ==
    IF k = 1 THEN LabeledDateMatch(line)
    ELSE IF k = 2
    THEN MatchedDate(line, DatePatMatch(line, <<2, 1>>, <<2, 1>>, <<4>>, DateSeps))
    ELSE MatchedDate(line, DatePatMatch(line, <<4>>, <<2, 1>>, <<2, 1>>, DateSeps))

\* the normalized date, when there is one and it is valid
ValidNormalized(normalized) ==
    IF normalized # Null /\ isValidDate(normalized) THEN normalized ELSE Null

\* the date the pattern k yields on the line, normalized, when it is valid
DobCandidate(line, k) ==
    Let(DobPatternMatch(line, k), LAMBDA dateStr :
        IF dateStr = Null THEN Null ELSE ValidNormalized(normalizeDateFormat(dateStr)))

\* for (const line of lines) for (const pattern of dobPatterns): the first hit
extractDateOfBirth(lines) ==
    Let({x \in (1..Len(lines)) \X (1..3) : DobCandidate(lines[x[1]], x[2]) # Null},
        LAMBDA hits :
            IF hits = {} THEN NoResult
            ELSE Let(FirstOf(hits), LAMBDA first :
                     [value |-> DobCandidate(lines[first[1]], first[2]),
                      confidenceX4 |-> 4 * 90]))

\* \s*NO at position q of the upper-cased line U: the index after it, or 0
NoEnd(U, q) ==
    Let(RunEnd(U, q, Space), LAMBDA n : IF LitAt(U, n, Word.NO) THEN n + 2 ELSE 0)

\* The index after a label of the first idPattern that starts at p of the
\* upper-cased line U, (?:ID\s*NO|LICENSE\s*NO|CARD\s*NO|NUMBER), or 0.
IdLabelEnd(U, p) ==
    IF LitAt(U, p, Word.ID) THEN NoEnd(U, p + 2)
    ELSE IF LitAt(U, p, Word.LICENSE) THEN NoEnd(U, p + 7)
    ELSE IF LitAt(U, p, Word.CARD) THEN NoEnd(U, p + 4)
    ELSE IF LitAt(U, p, Word.NUMBER) THEN p + 6
    ELSE 0

IdChars == Letter \cup Digit \cup Space \cup {"-"}

\* [:\s]+([A-Z0-9\s\-]+) after a label that ends before e (0: no label), q the
\* index after the colons and spaces: the capture, or Null.  [:\s]+ gives
\* characters back until the capture can start.
IdCapture(line, e, q) ==
    IF e = 0 \/ q = e THEN Null
    ELSE Let({c \in (e + 1)..q : c <= Len(line) /\ line[c] \in IdChars}, LAMBDA from :
             IF from = {} THEN Null
             ELSE Let(Greatest(from), LAMBDA c0 :
                      SubSeq(line, c0, RunEnd(line, c0, IdChars) - 1)))

\* the match of /(?:ID\s*NO|LICENSE\s*NO|CARD\s*NO|NUMBER)[:\s]+([A-Z0-9\s\-]+)/i
\* that starts at p: the capture, or Null
LabeledIdAt(line, U, p) ==
    Let(IdLabelEnd(U, p), LAMBDA e :
        IdCapture(line, e, RunEnd(line, e, {":"} \cup Space)))

\* line.match(idPatterns[1])[1], or Null
LabeledIdMatch(line) ==
    Let(ToUpper(line), LAMBDA U :
    Let({p \in 1..Len(line) : LabeledIdAt(line, U, p) # Null}, LAMBDA starts :
        IF starts = {} THEN Null ELSE LabeledIdAt(line, U, Least(starts))))

\* the leftmost match of /prefix\d{n,10}/ given the set of its start positions
\* and the length of the prefix, or Null
DigitRunMatch(line, starts, prefixLen) ==
    IF starts = {} THEN Null
    ELSE Let(Least(starts), LAMBDA p0 :
             SubSeq(line, p0, Min(RunEnd(line, p0 + prefixLen, Digit),
                                  p0 + prefixLen + 10) - 1))

\* line.match(idPatterns[k])[1], or Null
IdPatternMatch(line, k) ==
    IF k = 1 THEN LabeledIdMatch(line)
    ELSE IF k = 2
    THEN DigitRunMatch(line,
                       {p \in 1..Len(line) :
                           /\ p + 1 <= Len(line) /\ line[p] \in Upper /\ line[p + 1] \in Upper
                           /\ DigitsAt(line, p + 2, 6)}, 2)
    ELSE DigitRunMatch(line, {p \in 1..Len(line) : DigitsAt(line, p, 8)}, 0)

\* match[1].trim().replace(/\s+/g, '')
RECURSIVE StripSpaces(_)
StripSpaces(s) ==
    IF s = <<>> THEN <<>>
    ELSE (IF s[1] \in Space THEN <<>> ELSE <<s[1]>>) \o StripSpaces(Tail(s))

\* the id number when its length is in 6..15, or else Null
ValidIdNum(idNum) == IF Len(idNum) >= 6 /\ Len(idNum) <= 15 THEN idNum ELSE Null

IdCandidate(line, k) ==
    Let(IdPatternMatch(line, k), LAMBDA match :
        IF match = Null THEN Null ELSE ValidIdNum(StripSpaces(match)))

extractIDNumber(lines) ==
    Let({x \in (1..Len(lines)) \X (1..3) : IdCandidate(lines[x[1]], x[2]) # Null},
        LAMBDA hits :
            IF hits = {} THEN NoResult
            ELSE Let(FirstOf(hits), LAMBDA first :
                     [value |-> IdCandidate(lines[first[1]], first[2]),
                      confidenceX4 |-> 4 * 70]))

(***************************************************************************)
(* Results                                                                 *)
(***************************************************************************)
\* `return null`
NullResult == [kind |-> "null"]
\* the call ended with an exception
Thrown == [kind |-> "throw"]
\* a ScannedData record
Record(name, dob, id, confidence, isAdult) ==
    [kind |-> "record", name |-> name, dateOfBirth |-> dob, idNumber |-> id,
     confidence |-> confidence, isAdult |-> isAdult]

\* the record whose fields are all null
AllNullRecord == Record(Null, Null, Null, 0, FALSE)

\* Math.min(confidence, 100) of the three fields' contributions
\* a confidence that gives nothing for the id number
TextConfidence_NoIdBonus(name, dob, idNumber) ==
    Min((IF name # Null THEN 40 ELSE 0) + (IF dob # Null THEN 40 ELSE 0), 100)

TextConfidence(name, dob, idNumber) ==
    Min((IF name # Null THEN 40 ELSE 0) + (IF dob # Null THEN 40 ELSE 0)
        + (IF idNumber # Null THEN 20 ELSE 0), 100)

\* TextResult, were `return null` to return the all-null record
TextResult_AllNullRecord(name, dob, idNumber) ==
    IF name = Null \/ dob = Null THEN AllNullRecord
    ELSE Record(name, dob, idNumber, TextConfidence(name, dob, idNumber), IsAdultAt(dob))

\* the return of parseIDCardData, given the three extracted values
TextResult(name, dob, idNumber) ==
    IF name = Null \/ dob = Null THEN NullResult
    ELSE Record(name, dob, idNumber, TextConfidence(name, dob, idNumber), IsAdultAt(dob))

\* parseIDCardData with its patterns kept in module-level /g regexes: after a
\* call that matched, lastIndex is left set and the next call finds nothing
parseIDCardData_StickyRegex(text) ==
    IF earlier.op = "parseIDCardData" /\ earlier.ret.kind = "record" THEN NullResult
    ELSE Let(TextLines(text), LAMBDA lines :
             TextResult(extractName(lines).value, extractDateOfBirth(lines).value,
                        extractIDNumber(lines).value))

parseIDCardData(text) ==
    Let(TextLines(text), LAMBDA lines :
        TextResult(extractName(lines).value, extractDateOfBirth(lines).value,
                   extractIDNumber(lines).value))

(***************************************************************************)
(* Spatial Token Parser                                                    *)
(* A TextBlock is [text, x, y], x and y its boundingBox.x and .y.  The     *)
(* textBlocks argument is [defined, list]: defined is FALSE when the       *)
(* caller passed undefined.                                                *)
(***************************************************************************)
\* x / maxX < 0.5 /\ 0.15 < y / maxY < 0.45, in whole numbers (x / 0 is NaN or
\* Infinity, of which every comparison here is false)
InNameRegion(block, maxX, maxY) ==
    /\ maxX > 0 /\ maxY > 0
    /\ 2 * block.x < maxX
    /\ 100 * block.y > 15 * maxY
    /\ 100 * block.y < 45 * maxY

RECURSIVE NameRegionBlocks(_, _, _)
NameRegionBlocks(blocks, maxX, maxY) ==
    IF blocks = <<>> THEN <<>>
    ELSE (IF InNameRegion(blocks[1], maxX, maxY) THEN <<blocks[1]>> ELSE <<>>)
         \o NameRegionBlocks(Tail(blocks), maxX, maxY)

\* the comparator of nameRegionBlocks.sort
CompareBlocks(a, b) ==
    IF Abs(a.y - b.y) > 10 THEN a.y - b.y ELSE a.x - b.x

\* the comparator is a consistent comparator for these blocks (ECMAScript,
\* Array.prototype.sort): its "less" and its "equal" are transitive
ConsistentComparator(blocks) ==
    \A i, j, k \in 1..Len(blocks) :
        /\ (CompareBlocks(blocks[i], blocks[j]) < 0 /\ CompareBlocks(blocks[j], blocks[k]) < 0)
               => CompareBlocks(blocks[i], blocks[k]) < 0
        /\ (CompareBlocks(blocks[i], blocks[j]) = 0 /\ CompareBlocks(blocks[j], blocks[k]) = 0)
               => CompareBlocks(blocks[i], blocks[k]) = 0

\* the orders of the blocks: blocks composed with a permutation of its indices
Orderings(blocks) ==
    {[i \in 1..Len(blocks) |-> blocks[f[i]]] :
        f \in {g \in [1..Len(blocks) -> 1..Len(blocks)] :
                   \A i, j \in 1..Len(blocks) : i # j => g[i] # g[j]}}

\* sorted with b put after its last element that is not greater than b
InsertSorted(sorted, b) ==
    Let({i \in 1..Len(sorted) : CompareBlocks(sorted[i], b) <= 0}, LAMBDA notAfter :
    Let(IF notAfter = {} THEN 0 ELSE Greatest(notAfter), LAMBDA at :
        SubSeq(sorted, 1, at) \o <<b>> \o SubSeq(sorted, at + 1, Len(sorted))))

\* the stable sort
RECURSIVE StableSort(_)
StableSort(blocks) ==
    IF blocks = <<>> THEN <<>>
    ELSE InsertSorted(StableSort(SubSeq(blocks, 1, Len(blocks) - 1)), blocks[Len(blocks)])

\* What blocks.sort(comparator) can leave in the array: the stable sorted order
\* when the comparator is consistent for the blocks, and otherwise an order the
\* implementation defines.
SortOutcomes(blocks) ==
    IF ConsistentComparator(blocks) THEN {StableSort(blocks)} ELSE Orderings(blocks)

\* lines.push({ text: currentLine.join(' '), y: currentY }) when currentLine
\* is not empty: the lines pushed
PushLine(currentLine, currentY) ==
    IF Len(currentLine) > 0 THEN <<[text |-> Join(currentLine), y |-> currentY]>> ELSE <<>>

\* a grouping loop that measures each block against the block before it
RECURSIVE GroupFrom_Consecutive(_, _, _, _)
GroupFrom_Consecutive(sorted, i, currentLine, currentY) ==
    IF i > Len(sorted) THEN PushLine(currentLine, currentY)
    ELSE IF Abs(sorted[i].y - currentY) > 10
    THEN PushLine(currentLine, currentY)
         \o GroupFrom_Consecutive(sorted, i + 1, <<sorted[i].text>>, sorted[i].y)
    ELSE GroupFrom_Consecutive(sorted, i + 1, Append(currentLine, sorted[i].text),
                               sorted[i].y)

\* the grouping loop: the lines pushed while walking the sorted blocks from
\* index i on, currentLine and currentY being the loop's variables
RECURSIVE GroupFrom(_, _, _, _)
GroupFrom(sorted, i, currentLine, currentY) ==
    IF i > Len(sorted) THEN PushLine(currentLine, currentY)
    ELSE IF Abs(sorted[i].y - currentY) > 10
    THEN PushLine(currentLine, currentY)
         \o GroupFrom(sorted, i + 1, <<sorted[i].text>>, sorted[i].y)
    ELSE GroupFrom(sorted, i + 1, Append(currentLine, sorted[i].text), currentY)

GroupLines(sorted) == GroupFrom(sorted, 1, <<>>, sorted[1].y)

\* line.text.split(/\s+/).filter(w => w.length >= 2)
LineWords(t) == WordsOfLen(SplitWS(t), 2)

RECURSIVE DropLongLines(_)
DropLongLines(lines) ==
    IF lines = <<>> THEN <<>>
    ELSE (IF Len(LineWords(lines[1].text)) > 3 THEN <<>> ELSE <<lines[1]>>)
         \o DropLongLines(Tail(lines))

\* a walk that does not stop at a gap
FinalNameLines_NoGap(nameLines) == nameLines

\* the lines up to the first vertical gap of more than 20
FinalNameLines(nameLines) ==
    Let({i \in 1..(Len(nameLines) - 1) : nameLines[i + 1].y - nameLines[i].y > 20},
        LAMBDA gaps :
            IF gaps = {} THEN nameLines ELSE SubSeq(nameLines, 1, Least(gaps)))

\* /\d{1,2}[-\/]\d{1,2}[-\/]\d{4}/.test(line)
HasDatePattern(line) == DatePatMatch(line, <<2, 1>>, <<2, 1>>, <<4>>, SlashDash) # <<>>

\* the single-line name, unless the line after the first line of the text that
\* includes it holds a date
SingleLineName(allTextLines, nameText) ==
    Let({i \in 1..Len(allTextLines) : Includes(allTextLines[i], nameText)}, LAMBDA found :
        IF found = {} THEN nameText
        ELSE Let(Least(found), LAMBDA nameIndex :
                 IF /\ nameIndex < Len(allTextLines)
                    /\ HasDatePattern(allTextLines[nameIndex + 1])
                 THEN <<>> ELSE nameText))

\* the name of two lines, when the second line has one or two words
TwoLineName(line1, line2) ==
    Let(Len(LineWords(line2.text)), LAMBDA n :
        IF n >= 1 /\ n <= 2 THEN line1.text \o <<" ">> \o line2.text ELSE <<>>)

\* nameText as the assembly leaves it, before the exclusion list, nWords the
\* number of firstLineWords
NameOfLines(text, finalNameLines, nWords) ==
    IF nWords >= 2 THEN SingleLineName(TextLines(text), finalNameLines[1].text)
    ELSE IF nWords = 1 /\ Len(finalNameLines) >= 2
    THEN TwoLineName(finalNameLines[1], finalNameLines[2])
    ELSE <<>>

AssembledName(text, finalNameLines) ==
    NameOfLines(text, finalNameLines,
                IF finalNameLines = <<>> THEN 0 ELSE Len(LineWords(finalNameLines[1].text)))

\* /^[A-Z]+$/i.test(w)
IsAlphaWord(w) == Len(w) >= 1 /\ \A i \in 1..Len(w) : w[i] \in Letter

\* words.filter(w => w.length >= 2 && /^[A-Z]+$/i.test(w))
RECURSIVE AlphaWords(_)
AlphaWords(words) ==
    IF words = <<>> THEN <<>>
    ELSE (IF Len(words[1]) >= 2 /\ IsAlphaWord(words[1]) THEN <<words[1]>> ELSE <<>>)
         \o AlphaWords(Tail(words))

\* nameText after the loop over the spatial parser's exclusion list
AfterExclusion(nameText) ==
    IF isExcluded(nameText, spatialExcludeList) THEN <<>> ELSE nameText

\* nameWords.length >= 2 ? nameWords.join(' ').toUpperCase() : ''
NameOfWords(nameWords) ==
    IF Len(nameWords) >= 2 THEN ToUpper(Join(nameWords)) ELSE <<>>

\* validName: the assembled name after the exclusion list and the word filter
ValidName(nameText) == NameOfWords(AlphaWords(SplitWS(AfterExclusion(nameText))))

\* the name the spatial parser makes of the sorted name-region blocks
SpatialName(text, sorted) ==
    ValidName(AssembledName(text, FinalNameLines(DropLongLines(GroupLines(sorted)))))

\* Math.max(...textBlocks.map(b => b.boundingBox.x)), and the same of y
MaxX(blocks) == Greatest({blocks[i].x : i \in 1..Len(blocks)})
MaxY(blocks) == Greatest({blocks[i].y : i \in 1..Len(blocks)})

\* What the text-based parser makes of the text: the date of birth and the id
\* number (lines 167-169), and the return of parseIDCardData(text), to which
\* every failure path falls back.
TextFields(text) ==
    Let(TextLines(text), LAMBDA textLines :
        [dob |-> extractDateOfBirth(textLines).value,
         idNumber |-> extractIDNumber(textLines).value,
         fallback |-> parseIDCardData(text)])

\* the return of the spatial parser, given validName and the text's fields
\* a spatial record whose confidence is summed as the text-only parser's is
SpatialResult_TextConfidence(validName, fields) ==
    IF validName = <<>> \/ fields.dob = Null THEN fields.fallback
    ELSE Record(validName, fields.dob, fields.idNumber,
                TextConfidence(validName, fields.dob, fields.idNumber),
                IsAdultAt(fields.dob))

SpatialResult(validName, fields) ==
    IF validName = <<>> \/ fields.dob = Null THEN fields.fallback
    ELSE Record(validName, fields.dob, fields.idNumber, 90, IsAdultAt(fields.dob))

\* parseIDCardDataWithPosition from the sort on, the sort having left `sorted`
ParseSorted(text, sorted, fields) == SpatialResult(SpatialName(text, sorted), fields)

\* parseIDCardDataWithPosition once textBlocks is known to have blocks
ParseBlocks(text, nameRegionBlocks, fields) ==
    IF Len(nameRegionBlocks) = 0 THEN {fields.fallback}
    ELSE {ParseSorted(text, sorted, fields) : sorted \in SortOutcomes(nameRegionBlocks)}

\* the blocks of the name region of a token list
NameRegionOf(list) ==
    NameRegionBlocks(list, MaxX(list), MaxY(list))

\* the results parseIDCardDataWithPosition can return, given the text's fields
PositionResults(text, textBlocks, fields) ==
    IF ~textBlocks.defined
    THEN {Thrown}     \* textBlocks.length, read for the first log line
    ELSE IF Len(textBlocks.list) = 0 THEN {fields.fallback}
    ELSE ParseBlocks(text, NameRegionOf(textBlocks.list), fields)

\* the results parseIDCardDataWithPosition(text, textBlocks) can return
parseIDCardDataWithPosition(text, textBlocks) ==
    PositionResults(text, textBlocks, TextFields(text))

(***************************************************************************)
(* OCR client (utils/ocr.ts)                                               *)
(* A response is [kind, body]: kind "networkError" (fetch rejects),        *)
(* "notOk" (a non-2xx status), "badJson" (response.json() rejects),        *)
(* "nullBody" (the JSON is null, so that result.dateOfBirth throws inside  *)
(* the try) or "ok"; body is the JSON the route sent,                      *)
(* [name, dateOfBirth, idNumber, confidence], a missing or null field      *)
(* being Null and the confidence a sequence of at most one number.         *)
(***************************************************************************)
\* OcrRecord, were isAdult computed without the `if (result.dateOfBirth)`
\* guard: new Date(null) is the epoch, 1970-01-01
OcrRecord_NoGuard(result) ==
    Record(result.name, result.dateOfBirth, result.idNumber,
           IF result.confidence = <<>> THEN 0 ELSE result.confidence[1],
           IF result.dateOfBirth # Null THEN IsAdultAt(result.dateOfBirth)
           ELSE IsAdultAt(<<"1","9","7","0","-","0","1","-","0","1">>))

\* the record performOCR makes of the route's result
OcrRecord(result) ==
    Record(result.name, result.dateOfBirth, result.idNumber,
           IF result.confidence = <<>> THEN 0 ELSE result.confidence[1],
           IF result.dateOfBirth # Null THEN IsAdultAt(result.dateOfBirth) ELSE FALSE)

\* performOCR without its catch: a failure rejects the promise
performOCR_NoCatch(response) ==
    IF response.kind # "ok" THEN Thrown ELSE OcrRecord(response.body)

performOCR(response) ==
    IF response.kind # "ok" THEN AllNullRecord ELSE OcrRecord(response.body)

(***************************************************************************)
(* Inputs                                                                  *)
(***************************************************************************)
MaxLines == 3
MaxNameTokens == 3

\* the sequences of at most n elements of S
SeqsUpTo(S, n) == UNION {[1..k -> S] : k \in 0..n}

L_BLANK == <<" "," ">>
L_DRIVER_LICENCE == <<"D","R","I","V","E","R"," ","L","I","C","E","N","C","E">>
L_VICTORIA == <<"V","I","C","T","O","R","I","A">>
L_NAME_LABELED == <<"N","A","M","E",":"," ","J","A","N","E"," ","C","I","T","I","Z","E","N">>
L_JANE == <<"J","A","N","E">>
L_CITIZEN == <<"C","I","T","I","Z","E","N">>
L_JANE_CITIZEN == <<"J","A","N","E"," ","C","I","T","I","Z","E","N">>
L_TITLE_CASE == <<"J","a","n","e"," ","C","i","t","i","z","e","n">>
L_DOB_LABELED == <<"D","O","B",":"," ","1","5","-","0","5","-","1","9","9","0">>
L_DATE_OF_BIRTH == <<"D","A","T","E"," ","O","F"," ","B","I","R","T","H"," ","1","5","/","0","5","/","1","9","9","0">>
L_EXPIRY == <<"E","X","P","I","R","Y"," ","0","1","-","0","1","-","2","0","3","0">>
L_CARD_NO == <<"C","A","R","D"," ","N","O",":"," ","A","B","1","2","3","4","5","6">>

\* the raw lines the texts are made of
Vocabulary ==
    {L_BLANK, L_DRIVER_LICENCE, L_NAME_LABELED, L_JANE, L_CITIZEN, L_JANE_CITIZEN,
     L_TITLE_CASE, L_DOB_LABELED, L_EXPIRY, L_CARD_NO}

\* Scenario B of the specification, one line longer than MaxLines
ScenarioB == <<L_VICTORIA, L_JANE, L_CITIZEN, L_DATE_OF_BIRTH>>

\* the empty string is the single empty line <<<<>>>>
EmptyText == <<<<>>>>

Texts == (SeqsUpTo(Vocabulary, MaxLines) \ {<<>>}) \cup {EmptyText, ScenarioB}

T_JANE == <<"J","A","N","E">>
T_CITIZEN == <<"C","I","T","I","Z","E","N">>
T_DRIVER == <<"D","R","I","V","E","R">>
T_LICENCE == <<"L","I","C","E","N","C","E">>
T_ONE == <<"1">>
T_BCD == <<"B","C","D">>

TokenTexts == {T_JANE, T_CITIZEN, T_DRIVER, T_LICENCE, T_ONE, T_BCD}

\* Token k of a list stands in column k, in one of two rows 16 apart: the
\* columns 90 apart and the rows inside the name region of a card 400 wide and
\* 100 high.
Rows == {1, 2}
ColumnX(k) == 10 + 90 * (k - 1)
RowY(r) == 20 + 16 * (r - 1)

\* the list of the tokens with texts w, token k in row r[k]
Tokens(w, r) ==
    [k \in DOMAIN w |-> [text |-> w[k], x |-> ColumnX(k), y |-> RowY(r[k])]]

\* a block at the bottom right corner, which gives the card its extent
Corner == [text |-> T_ONE, x |-> 400, y |-> 100]

\* The textBlocks arguments without the corner block: undefined, the empty
\* list and the lists of one token.  Without the corner block no token lies in
\* the name region.
BareTokenArgs ==
    {[defined |-> FALSE, list |-> <<>>], [defined |-> TRUE, list |-> <<>>]}
    \cup {[defined |-> TRUE, list |-> Tokens(<<w>>, <<r>>)] : w \in TokenTexts, r \in Rows}

\* the textBlocks argument of the tokens with texts w in rows r, followed by
\* the corner block
CornerTokenArg(w, r) == [defined |-> TRUE, list |-> Append(Tokens(w, r), Corner)]

\* the texts given together with tokens
SpatialTexts ==
    {EmptyText, <<L_DOB_LABELED>>, <<L_JANE_CITIZEN, L_DOB_LABELED>>,
     <<L_DOB_LABELED, L_CARD_NO>>}

\* the bodies the OCR route can answer with
Bodies ==
    {[name |-> n, dateOfBirth |-> d, idNumber |-> i, confidence |-> c] :
        n \in {Null, L_JANE_CITIZEN},
        d \in {Null, <<"1","9","9","0","-","0","5","-","1","5">>,
               <<"2","0","1","5","-","0","5","-","1","5">>, <<"n","/","a">>},
        i \in {Null, <<"A","B","1","2","3","4","5","6">>},
        c \in {<<>>, <<0>>, <<95>>}}

Responses ==
    {[kind |-> k, body |-> Null] : k \in {"networkError", "notOk", "badJson", "nullBody"}}
    \cup {[kind |-> "ok", body |-> b] : b \in Bodies}

\* a number below 100 in two digits, a year in four
Digits2(n) == <<DigitSeq[(n \div 10) + 1], DigitSeq[(n % 10) + 1]>>
Digits4(n) == Digits2(n \div 100) \o Digits2(n % 100)

\* a day or month as a card prints it: in two digits, or without the leading zero
Digits(n, padded) == IF padded \/ n >= 10 THEN Digits2(n) ELSE <<DigitSeq[n + 1]>>

\* the date y, m, d written day first ("dmy") or year first ("ymd")
Written(order, y, m, d, sep, padded) ==
    IF order = "dmy"
    THEN Digits(d, padded) \o <<sep>> \o Digits(m, padded) \o <<sep>> \o Digits4(y)
    ELSE Digits4(y) \o <<sep>> \o Digits(m, padded) \o <<sep>> \o Digits(d, padded)

\* the years of the dates given to normalizeDateFormat
NormYears == {1990, 2006}

\* The dates <<y, m, d>> printed on the cards: around the 18th and the 120th
\* birthday of the reference dates, ordinary, future, and dates no calendar has.
DobFields ==
    {<<2006, 5, 14>>, <<2006, 5, 15>>, <<2006, 5, 16>>,
     <<1904, 5, 14>>, <<1904, 5, 15>>, <<1904, 5, 16>>,
     <<2006, 2, 28>>, <<2006, 2, 29>>, <<2006, 3, 1>>,
     <<1904, 2, 28>>, <<1904, 2, 29>>, <<1904, 3, 1>>,
     <<1990, 5, 15>>, <<1903, 12, 31>>, <<2024, 5, 15>>, <<2030, 1, 1>>,
     <<1990, 2, 31>>, <<1992, 2, 30>>, <<1990, 4, 31>>, <<1990, 13, 1>>,
     <<1990, 0, 10>>, <<1990, 5, 32>>}

\* "DOB: dd/mm/yyyy" and the bare "yyyy-mm-dd"
DobLine(f) == Word.DOB \o <<":", " ">> \o Written("dmy", f[1], f[2], f[3], "/", TRUE)
IsoLine(f) == Written("ymd", f[1], f[2], f[3], "-", TRUE)

\* the texts of a card that names its holder and prints one date
DatedTexts ==
    {<<L_NAME_LABELED, DobLine(f)>> : f \in DobFields}
    \cup {<<L_NAME_LABELED, IsoLine(f)>> : f \in DobFields}

\* the dates of DobFields that a calendar has, as calculateAge is given them
BirthDates ==
    {Written("ymd", f[1], f[2], f[3], "-", TRUE) :
        f \in {g \in DobFields : g[2] \in 1..12 /\ g[3] \in 1..DaysInMonth(g[1], g[2])}}

\* the days `new Date()` is read on, the clock's offsets from UTC, the engines
Nows == {<<2024, 5, 15>>, <<2024, 2, 29>>}
TzOffsets == {-1, 0, 1}
Engines == {"v8", "strict"}

(***************************************************************************)
(* The extractor and the OCR client as a state machine: a call is one      *)
(* step from "idle", Return the step back.                                 *)
(***************************************************************************)
RefNow == <<2024, 5, 15>>

\* no call has been noted
NoCall == [op |-> "none"]

\* an empty database, and no server action running
Callers == {"c1", "c2"}
IdleTask == [pc |-> "idle"]

NoServerCalls ==
    /\ db = [excluded_persons |-> <<>>, audit_logs |-> <<>>]
    /\ tasks = [c \in Callers |-> IdleTask]
    /\ started = 0

\* the scanner is not on the page
NoScanner ==
    [mounted |-> FALSE, stream |-> 0, capturedImage |-> FALSE, isProcessing |-> FALSE,
     error |-> "", attempts |-> 0, scanResult |-> <<>>, live |-> {}, pendingMedia |-> 0,
     ocr |-> <<>>, timers |-> {}, scheduled |-> <<>>, completed |-> <<>>, closes |-> 0]

Init ==
    /\ now = RefNow \o <<0>>
    /\ tz = 0
    /\ engine = "v8"
    /\ op = "idle"
    /\ arg = <<>>
    /\ ret = <<>>
    /\ earlier = NoCall
    /\ NoServerCalls
    /\ scanner = NoScanner

\* parseIDCardDataWithPosition(text, textBlocks), fields being TextFields(text)
WithPosition(text, textBlocks, fields) ==
    \E r \in PositionResults(text, textBlocks, fields) :
        /\ op' = "parseIDCardDataWithPosition"
        /\ arg' = [text |-> text, textBlocks |-> textBlocks]
        /\ ret' = r

CallParseIDCardDataWithPosition ==
    /\ op = "idle"
    /\ \E text \in SpatialTexts : \E fields \in {TextFields(text)} :
          \/ \E textBlocks \in BareTokenArgs : WithPosition(text, textBlocks, fields)
          \/ \E n \in 0..MaxNameTokens :
                 \E w \in [1..n -> TokenTexts], r \in [1..n -> Rows] :
                     WithPosition(text, CornerTokenArg(w, r), fields)
    /\ UNCHANGED <<now, tz, engine, earlier, db, tasks, started, scanner>>

CallParseIDCardData ==
    /\ op = "idle"
    /\ \E text \in Texts :
          /\ op' = "parseIDCardData"
          /\ arg' = [text |-> text]
          /\ ret' = parseIDCardData(text)
    /\ UNCHANGED <<now, tz, engine, earlier, db, tasks, started, scanner>>

CallPerformOCR ==
    /\ op = "idle"
    /\ \E response \in Responses :
          /\ op' = "performOCR"
          /\ arg' = [response |-> response]
          /\ ret' = performOCR(response)
    /\ UNCHANGED <<now, tz, engine, earlier, db, tasks, started, scanner>>

Return ==
    /\ op # "idle"
    /\ op' = "idle"
    /\ arg' = <<>>
    /\ ret' = <<>>
    /\ UNCHANGED <<now, tz, engine, earlier, db, tasks, started, scanner>>

(***************************************************************************)
(* The OCR route, POST /api/ocr.  A request is its body as req.json()      *)
(* reads it; the LLM call is what groq.chat.completions.create does when    *)
(* it is made.                                                             *)
(***************************************************************************)
\* the bodies of requests: not JSON at all, the JSON value null, or an object
\* whose image is absent, null, the empty string or a string
Images ==
    {[type |-> "undefined", value |-> ""], [type |-> "null", value |-> ""],
     [type |-> "string", value |-> ""],
     [type |-> "string", value |-> "data:image/jpeg;base64,AAAA"],
     [type |-> "string", value |-> "not-a-valid-base64-image"]}

Requests ==
    {[json |-> "unparsable", image |-> [type |-> "undefined", value |-> ""]],
     [json |-> "null", image |-> [type |-> "undefined", value |-> ""]]}
    \cup {[json |-> "object", image |-> i] : i \in Images}

\* what the LLM call does: it rejects with a message, or resolves with no
\* choice, or with a choice whose content is absent, empty, not JSON, or JSON
LlmValues ==
    {b \in Bodies : b.idNumber = Null /\ b.confidence = <<95>> /\ b.name # Null}

LlmCalls ==
    {[kind |-> "rejects", message |-> m, value |-> Null] :
        m \in {"401 Invalid API Key", "400 invalid image data"}}
    \cup {[kind |-> k, message |-> "", value |-> Null] :
        k \in {"noChoices", "noContent", "emptyContent", "notJson"}}
    \cup {[kind |-> "json", message |-> "", value |-> v] : v \in LlmValues}

\* !x of a request's image
Falsy(image) == image.type # "string" \/ image.value = ""

\* the try block of POST: the response it returns, or the error it throws,
\* and the number of LLM calls made
TryPOST(request, llm) ==
    IF request.json = "unparsable"
    THEN [kind |-> "throw", message |-> "Unexpected token", llmCalls |-> 0]
    ELSE IF request.json = "null"
    THEN [kind |-> "throw", message |-> "Cannot destructure property 'image'",
          llmCalls |-> 0]
    ELSE IF Falsy(request.image)
    THEN [kind |-> "return", status |-> 400,
          body |-> [error |-> "Image data is required"], llmCalls |-> 0]
    ELSE IF llm.kind = "rejects"
    THEN [kind |-> "throw", message |-> llm.message, llmCalls |-> 1]
    ELSE IF llm.kind \in {"noChoices", "noContent", "emptyContent"}
    THEN [kind |-> "throw", message |-> "No content received from LLM",
          llmCalls |-> 1]
    ELSE IF llm.kind = "notJson"
    THEN [kind |-> "throw", message |-> "Invalid JSON response from LLM",
          llmCalls |-> 1]
    ELSE [kind |-> "return", status |-> 200, body |-> llm.value, llmCalls |-> 1]

\* a route whose catch block answers with the error's own message
POST_ExposesMessage(request, llm) ==
    Let(TryPOST(request, llm), LAMBDA tried :
        IF tried.kind = "throw"
        THEN [status |-> 500, body |-> [error |-> tried.message],
              llmCalls |-> tried.llmCalls]
        ELSE [status |-> tried.status, body |-> tried.body,
              llmCalls |-> tried.llmCalls])

\* POST(req): the response, and the number of LLM calls made
POST(request, llm) ==
    Let(TryPOST(request, llm), LAMBDA tried :
        IF tried.kind = "throw"
        THEN [status |-> 500, body |-> [error |-> "Failed to process image"],
              llmCalls |-> tried.llmCalls]
        ELSE [status |-> tried.status, body |-> tried.body,
              llmCalls |-> tried.llmCalls])

CallPOST ==
    /\ op = "idle"
    /\ \E request \in Requests, llm \in LlmCalls :
          /\ op' = "POST"
          /\ arg' = [request |-> request, llm |-> llm]
          /\ ret' = POST(request, llm)
    /\ UNCHANGED <<now, tz, engine, earlier, db, tasks, started, scanner>>

Next ==
    \/ CallParseIDCardDataWithPosition
    \/ CallParseIDCardData
    \/ CallPerformOCR
    \/ CallPOST
    \/ Return

Spec == Init /\ [][Next]_vars

(***************************************************************************)
(* The date handling under every clock: the day, the time of day, the      *)
(* offset from UTC and the engine are chosen at the start.                 *)
(***************************************************************************)
InitDates ==
    /\ now \in {n \o <<t>> : n \in Nows, t \in 0..(TicksPerDay - 1)}
    /\ tz \in TzOffsets
    /\ engine \in Engines
    /\ op = "idle"
    /\ arg = <<>>
    /\ ret = <<>>
    /\ earlier = NoCall
    /\ NoServerCalls
    /\ scanner = NoScanner

\* parseIDCardData of a card that prints one date
ScanDatedCard ==
    /\ op = "idle"
    /\ \E text \in DatedTexts :
          /\ op' = "parseIDCardData"
          /\ arg' = [text |-> text]
          /\ ret' = parseIDCardData(text)
    /\ UNCHANGED <<now, tz, engine, earlier, db, tasks, started, scanner>>

CallCalculateAge ==
    /\ op = "idle"
    /\ \E dobString \in BirthDates :
          /\ op' = "calculateAge"
          /\ arg' = [dobString |-> dobString]
          /\ ret' = calculateAge(dobString)
    /\ UNCHANGED <<now, tz, engine, earlier, db, tasks, started, scanner>>

NextDates ==
    \/ ScanDatedCard
    \/ CallCalculateAge
    \/ Return

SpecDates == InitDates /\ [][NextDates]_vars

(***************************************************************************)
(* normalizeDateFormat on the dates a card can print                       *)
(***************************************************************************)
CallNormalizeDateFormat ==
    /\ op = "idle"
    /\ \E y \in NormYears, m \in 1..12, d \in 1..31, sep \in DateSeps,
          padded \in BOOLEAN, order \in {"dmy", "ymd"} :
          /\ op' = "normalizeDateFormat"
          /\ arg' = [dateStr |-> Written(order, y, m, d, sep, padded),
                     year |-> y, month |-> m, day |-> d, order |-> order,
                     sep |-> sep, padded |-> padded]
          /\ ret' = normalizeDateFormat(Written(order, y, m, d, sep, padded))
    /\ UNCHANGED <<now, tz, engine, earlier, db, tasks, started, scanner>>

NextNorm ==
    \/ CallNormalizeDateFormat
    \/ Return

SpecNorm == Init /\ [][NextNorm]_vars

(***************************************************************************)
(* The extractor called again and again while the clock runs: an observer  *)
(* notes some of the calls, with the instant they were made at.            *)
(***************************************************************************)
\* the cards scanned repeatedly, and the token lists that come with them
RepeatTexts == {EmptyText, <<L_DOB_LABELED>>, <<L_JANE_CITIZEN, L_DOB_LABELED>>, ScenarioB}

RepeatTokenArgs ==
    {[defined |-> TRUE, list |-> <<>>],
     CornerTokenArg(<<T_JANE, T_CITIZEN>>, <<1, 1>>),
     CornerTokenArg(<<T_JANE, T_CITIZEN>>, <<1, 2>>),
     CornerTokenArg(<<T_DRIVER, T_ONE, T_LICENCE>>, <<1, 1, 1>>)}

\* the instants of the clock: RefNow, and the day eighteen years after the
\* date of birth the cards print, 1990-05-15
ClockInstants == {RefNow \o <<0>>, <<2008, 5, 14, 0>>, <<2008, 5, 15, 0>>}

RepeatParseIDCardDataWithPosition ==
    /\ op = "idle"
    /\ \E text \in RepeatTexts, textBlocks \in RepeatTokenArgs :
          WithPosition(text, textBlocks, TextFields(text))
    /\ UNCHANGED <<now, tz, engine, earlier, db, tasks, started, scanner>>

RepeatParseIDCardData ==
    /\ op = "idle"
    /\ \E text \in RepeatTexts :
          /\ op' = "parseIDCardData"
          /\ arg' = [text |-> text]
          /\ ret' = parseIDCardData(text)
    /\ UNCHANGED <<now, tz, engine, earlier, db, tasks, started, scanner>>

\* time passes between two calls
ClockAdvances ==
    /\ op = "idle"
    /\ \E later \in ClockInstants : Before(now, later) /\ now' = later
    /\ UNCHANGED <<tz, engine, op, arg, ret, earlier, db, tasks, started, scanner>>

\* the call returns and the observer notes it, forgetting the one noted before
ReturnNoted ==
    /\ op # "idle"
    /\ earlier' = [op |-> op, arg |-> arg, now |-> now, ret |-> ret]
    /\ op' = "idle"
    /\ arg' = <<>>
    /\ ret' = <<>>
    /\ UNCHANGED <<now, tz, engine, db, tasks, started, scanner>>

InitCalls ==
    /\ now = <<2008, 5, 14, 0>>
    /\ tz = 0
    /\ engine = "v8"
    /\ op = "idle"
    /\ arg = <<>>
    /\ ret = <<>>
    /\ earlier = NoCall
    /\ NoServerCalls
    /\ scanner = NoScanner

NextCalls ==
    \/ RepeatParseIDCardDataWithPosition
    \/ RepeatParseIDCardData
    \/ ClockAdvances
    \/ ReturnNoted
    \/ Return

SpecCalls == InitCalls /\ [][NextCalls]_vars

(***************************************************************************)
(* The passes of the text-only parser, extractName and                     *)
(* extractDateOfBirth, called as parseIDCardData calls them: on the        *)
(* trimmed, non-empty lines of a text.                                     *)
(***************************************************************************)
MaxPassLines == 3

L_NAME_EXCLUDED == Word.NAME \o <<":", " ">> \o L_DRIVER_LICENCE
L_SURNAME_LABELED == Word.SURNAME \o <<" ">> \o <<"S","M","I","T","H"," ","M","A","R","Y">>
L_THREE_WORDS == <<"M","A","R","Y"," ","A","N","N"," ","L","E","E">>
L_FOUR_WORDS == <<"A","L"," ","B","O"," ","C","Y"," ","D","E">>
L_MARY_LEE == <<"M","A","R","Y"," ","L","E","E">>
L_FILLER == <<"1","2","3","4">>

\* the lines the cards of the pass-order cases are made of
PassVocabulary ==
    {L_DRIVER_LICENCE, L_VICTORIA, L_NAME_LABELED, L_SURNAME_LABELED, L_NAME_EXCLUDED,
     L_JANE, L_CITIZEN, L_JANE_CITIZEN, L_THREE_WORDS, L_TITLE_CASE, L_DOB_LABELED}

\* n filler lines, the first of them a header line when header is TRUE
Padding(n, header) ==
    [k \in 1..n |-> IF k = 1 /\ header THEN L_DRIVER_LICENCE ELSE L_FILLER]

\* The cards of the scoring cases: a candidate line after 0..6 other lines, a
\* second candidate or none after a gap, and a data line, a filler or nothing
\* at the end.
ScoredCandidates == {L_JANE_CITIZEN, L_THREE_WORDS, L_FOUR_WORDS}

ScoredTexts ==
    {Padding(n, header) \o <<c>> \o second \o tail :
        n \in 0..6, header \in BOOLEAN, c \in ScoredCandidates,
        second \in {<<>>} \cup {Padding(g, FALSE) \o <<d>> :
                                   g \in {0, 1, 3}, d \in {L_MARY_LEE, L_THREE_WORDS}},
        tail \in {<<>>, <<L_FILLER>>, <<L_EXPIRY>>}}

NameLines == SeqsUpTo(PassVocabulary, MaxPassLines) \cup {ScenarioB} \cup ScoredTexts

CallExtractName ==
    /\ op = "idle"
    /\ \E lines \in NameLines :
          /\ op' = "extractName"
          /\ arg' = [lines |-> lines]
          /\ ret' = extractName(lines)
    /\ UNCHANGED <<now, tz, engine, earlier, db, tasks, started, scanner>>

\* The lines of the date cases: a labeled date of birth, an issue date (bare,
\* valid as a date of birth), an expiry date (bare, in the future), a date in
\* ISO order, a labeled date of a minor, and a line without a date.
L_ISSUED == <<"I","S","S","U","E","D"," ","0","1","-","0","1","-","2","0","0","0">>
L_ISO_DATE == <<"2","0","0","1","-","0","2","-","0","3">>
L_DOB_MINOR == <<"D","O","B",":"," ","1","5","-","0","5","-","2","0","1","5">>

DobVocabulary == {L_DOB_LABELED, L_ISSUED, L_EXPIRY, L_ISO_DATE, L_DOB_MINOR, L_FILLER}
DobTexts == SeqsUpTo(DobVocabulary, MaxPassLines)

CallExtractDateOfBirth ==
    /\ op = "idle"
    /\ \E lines \in DobTexts :
          /\ op' = "extractDateOfBirth"
          /\ arg' = [lines |-> lines]
          /\ ret' = extractDateOfBirth(lines)
    /\ UNCHANGED <<now, tz, engine, earlier, db, tasks, started, scanner>>

NextPasses ==
    \/ CallExtractName
    \/ CallExtractDateOfBirth
    \/ Return

SpecPasses == Init /\ [][NextPasses]_vars

(***************************************************************************)
(* The spatial parser with what it logs: the sorted name-region tokens,    *)
(* the visual lines, the lines kept for the name and the name.  The tokens *)
(* stand at freely chosen positions inside the name region, each with a    *)
(* text of its own.                                                        *)
(***************************************************************************)
MaxPlacedTokens == 3

T_MARY == <<"M","A","R","Y">>
L_DOB_DOTTED == <<"D","O","B",":"," ","1","5",".","0","5",".","1","9","9","0">>

\* Positions in the name region of a card 400 wide and 100 high: rows 8, 10,
\* 11, 16, 20 and 21 apart are among them.
PlacedX == {10, 30, 50}
PlacedY == {20, 28, 30, 36, 40, 41}
PlacedTexts == {<<T_JANE, T_CITIZEN, T_MARY>>, <<T_JANE, L_FOUR_WORDS, T_CITIZEN>>}
TracedTexts ==
    {<<L_DOB_LABELED>>, <<L_JANE_CITIZEN, L_DOB_LABELED>>, <<L_JANE_CITIZEN, L_DOB_DOTTED>>}

\* the caller's array, had sort() been applied to it
TextBlocksAfter_SortedInPlace(textBlocks, sorted) == StableSort(textBlocks)

\* The caller's array after the call: textBlocks.filter builds the array
\* nameRegionBlocks, and it is that array sort() orders in place.
TextBlocksAfter(textBlocks, sorted) == textBlocks

\* the result of the call with the sort's outcome sorted, what the call logs
\* on its way, and the caller's array after it
Traced(text, textBlocks, sorted, fields) ==
    [result |-> ParseSorted(text, sorted, fields),
     sorted |-> sorted,
     lines |-> GroupLines(sorted),
     finalNameLines |-> FinalNameLines(DropLongLines(GroupLines(sorted))),
     validName |-> SpatialName(text, sorted),
     textBlocks |-> TextBlocksAfter(textBlocks, sorted)]

CallTracedParse ==
    /\ op = "idle"
    /\ \E text \in TracedTexts : \E fields \in {TextFields(text)} :
         \E w \in PlacedTexts, n \in 1..MaxPlacedTokens :
           \E x \in [1..n -> PlacedX], y \in [1..n -> PlacedY] :
             \E textBlocks \in {Append([k \in 1..n |-> [text |-> w[k], x |-> x[k], y |-> y[k]]],
                                       Corner)} :
               \E sorted \in SortOutcomes(NameRegionOf(textBlocks)) :
                  /\ op' = "parseIDCardDataWithPosition, logged"
                  /\ arg' = [text |-> text, textBlocks |-> textBlocks]
                  /\ ret' = Traced(text, textBlocks, sorted, fields)
    /\ UNCHANGED <<now, tz, engine, earlier, db, tasks, started, scanner>>

NextLines ==
    \/ CallTracedParse
    \/ Return

SpecLines == Init /\ [][NextLines]_vars

(***************************************************************************)
(* The server actions addPatron and searchPatron.  Every await is a step:  *)
(* between two steps of one caller the other caller's steps may run.  The  *)
(* database is the two tables the actions use, rows in insertion order.    *)
(***************************************************************************)
MaxServerCalls == 2

\* s LIKE p: % matches any run of characters, _ any one character
RECURSIVE Like(_, _)
Like(s, p) ==
    IF p = <<>> THEN s = <<>>
    ELSE IF p[1] = "%" THEN Like(s, Tail(p)) \/ (s # <<>> /\ Like(Tail(s), p))
    ELSE s # <<>> /\ (p[1] = "_" \/ p[1] = s[1]) /\ Like(Tail(s), Tail(p))

\* s ILIKE p: LIKE without regard to case
ILike(s, p) == Like(ToUpper(s), ToUpper(p))

\* WHERE (name ILIKE $1 AND dob = $2) OR patron_id = $3
ExistingPatron(row, name, dob, patron_id) ==
    (ILike(row.name, name) /\ row.dob = dob) \/ row.patron_id = patron_id

\* WHERE name ILIKE $1 AND dob = $2
SearchedPatron(row, name, dob) == ILike(row.name, name) /\ row.dob = dob

\* the rows of a table a WHERE clause selects
RowsWhere(table, P(_)) == {i \in 1..Len(table) : P(table[i])}

\* e.message || fallback
ErrorMessage(message, fallback) == IF message = "" THEN fallback ELSE message

\* new Date(d).toISOString().split('T')[0] of a DATE column, which the driver
\* hands over as the Date of that day's local midnight
RowDate(d) == SubSeq(FromLocal(d \o <<0>>), 1, 3)

\* what auth.api.getSession resolves to, or that it rejects
Sessions ==
    {[kind |-> "none"], [kind |-> "rejects"],
     [kind |-> "user", id |-> "u1"], [kind |-> "user", id |-> ""]}

\* the messages of the errors a query can reject with
QueryErrors == {"connection terminated", ""}
UniqueViolation == "duplicate key value violates unique constraint"

PatronNames == {<<"A", "n", "n">>, <<"A", "N", "N">>, <<"A", "%">>}
PatronDob == <<1990, 5, 15>>
PatronExpiry == <<2030, 1, 1>>
Forms ==
    {[patron_id |-> id, name |-> n, dob |-> PatronDob, expiry_date |-> PatronExpiry] :
        id \in {"P1", "P2"}, n \in PatronNames}
Searches == {[name |-> n, dob |-> PatronDob] : n \in PatronNames}

\* a server action called: the session is awaited first, outside the try
Started(c, fn, args, session) ==
    /\ tasks[c].pc = "idle"
    /\ started < MaxServerCalls
    /\ started' = started + 1
    /\ tasks' = [tasks EXCEPT ![c] =
          [fn |-> fn, args |-> args, session |-> session, failedAt |-> "none",
           queries |-> 0, audits |-> 0,
           pc |-> IF session.kind = "user" THEN "select" ELSE "done",
           result |-> IF session.kind = "rejects" THEN [kind |-> "throw"]
                      ELSE IF session.kind = "none"
                           THEN [kind |-> "error", error |-> "Unauthorized"]
                      ELSE [kind |-> "pending"]]]

\* the awaited query of caller c was made and resolved, and the action ends
\* with a result
Done(c, result) ==
    tasks' = [tasks EXCEPT ![c].pc = "done", ![c].result = result,
                           ![c].queries = @ + 1]

\* the awaited query rejects: the catch block's return
Caught(c, step, fallback) ==
    \E message \in QueryErrors :
        tasks' = [tasks EXCEPT ![c].pc = "done", ![c].failedAt = step,
                     ![c].queries = @ + 1,
                     ![c].result = [kind |-> "error",
                                    error |-> ErrorMessage(message, fallback)]]

StartAddPatron(c) ==
    /\ \E formData \in Forms, session \in Sessions :
          Started(c, "addPatron", formData, session)
    /\ UNCHANGED <<now, tz, engine, op, arg, ret, earlier, db, scanner>>

\* const existing = await db.query('SELECT id FROM excluded_persons ...')
AddPatronSelect(c) ==
    /\ tasks[c].pc = "select"
    /\ tasks[c].fn = "addPatron"
    /\ \/ Caught(c, "select", "Failed to add patron")
       \/ \E formData \in {tasks[c].args} :
            \E existing \in {RowsWhere(db.excluded_persons,
                               LAMBDA row : ExistingPatron(row, formData.name,
                                              formData.dob, formData.patron_id))} :
              IF existing # {}
              THEN Done(c, [kind |-> "error",
                            error |-> "Patron already exists (matching ID or Name+DOB)"])
              ELSE tasks' = [tasks EXCEPT ![c].pc = "insert", ![c].queries = @ + 1]
    /\ UNCHANGED <<now, tz, engine, op, arg, ret, earlier, db, started, scanner>>

\* await db.query('INSERT INTO excluded_persons ...'): patron_id is UNIQUE
AddPatronInsert(c) ==
    /\ tasks[c].pc = "insert"
    /\ \/ Caught(c, "insert", "Failed to add patron") /\ UNCHANGED db
       \/ \E formData \in {tasks[c].args} :
            IF \E i \in 1..Len(db.excluded_persons) :
                  db.excluded_persons[i].patron_id = formData.patron_id
            THEN /\ tasks' = [tasks EXCEPT ![c].pc = "done", ![c].failedAt = "insert",
                                 ![c].queries = @ + 1,
                                 ![c].result = [kind |-> "error", error |-> UniqueViolation]]
                 /\ UNCHANGED db
            ELSE /\ db' = [db EXCEPT !.excluded_persons = Append(@,
                              [patron_id |-> formData.patron_id, name |-> formData.name,
                               dob |-> formData.dob, expiry_date |-> formData.expiry_date,
                               added_date |-> SubSeq(now, 1, 3)])]
                 /\ IF tasks[c].session.id # ""
                    THEN tasks' = [tasks EXCEPT ![c].pc = "audit", ![c].queries = @ + 1]
                    ELSE Done(c, [kind |-> "success"])
    /\ UNCHANGED <<now, tz, engine, op, arg, ret, earlier, started, scanner>>

\* an addPatron that writes no audit-log row
AddPatronAudit_NoLog(c) ==
    /\ tasks[c].pc = "audit"
    /\ tasks[c].fn = "addPatron"
    /\ tasks' = [tasks EXCEPT ![c].pc = "done", ![c].result = [kind |-> "success"]]
    /\ UNCHANGED <<now, tz, engine, op, arg, ret, earlier, started, db, scanner>>

\* await db.query('INSERT INTO audit_logs ...'); revalidatePath('/');
\* return { success: true }
AddPatronAudit(c) ==
    /\ tasks[c].pc = "audit"
    /\ tasks[c].fn = "addPatron"
    /\ \/ Caught(c, "audit", "Failed to add patron") /\ UNCHANGED db
       \/ /\ db' = [db EXCEPT !.audit_logs = Append(@,
                       [user_id |-> tasks[c].session.id, role |-> "USER",
                        action |-> "Added new patron",
                        details |-> <<tasks[c].args.patron_id, tasks[c].args.name>>])]
          /\ tasks' = [tasks EXCEPT ![c].pc = "done", ![c].queries = @ + 1,
                          ![c].audits = @ + 1, ![c].result = [kind |-> "success"]]
    /\ UNCHANGED <<now, tz, engine, op, arg, ret, earlier, started, scanner>>

StartSearchPatron(c) ==
    /\ \E search \in Searches, session \in Sessions :
          Started(c, "searchPatron", search, session)
    /\ UNCHANGED <<now, tz, engine, op, arg, ret, earlier, db, scanner>>

\* the object searchPatron builds of result.rows[0], or null (no row)
SearchData(rows) ==
    IF rows = <<>> THEN <<>>
    ELSE <<[rows[1] EXCEPT !.dob = RowDate(@), !.expiry_date = RowDate(@),
                           !.added_date = RowDate(@)]>>

\* const result = await db.query('SELECT * FROM excluded_persons ... LIMIT 1'):
\* which of several matching rows comes first is the database's choice
SearchPatronSelect(c) ==
    /\ tasks[c].pc = "select"
    /\ tasks[c].fn = "searchPatron"
    /\ \/ Caught(c, "select", "Failed to search patron")
       \/ \E found \in {RowsWhere(db.excluded_persons,
                           LAMBDA row : SearchedPatron(row, tasks[c].args.name,
                                                       tasks[c].args.dob))} :
            \E rows \in IF found = {} THEN {<<>>}
                        ELSE {<<db.excluded_persons[i]>> : i \in found} :
              \E data \in {SearchData(rows)} :
                IF tasks[c].session.id # ""
                THEN tasks' = [tasks EXCEPT ![c].pc = "audit", ![c].queries = @ + 1,
                                  ![c].result = [kind |-> "pending", data |-> data]]
                ELSE Done(c, [kind |-> "data", data |-> data])
    /\ UNCHANGED <<now, tz, engine, op, arg, ret, earlier, db, started, scanner>>

\* await db.query('INSERT INTO audit_logs ...'); return { data }
SearchPatronAudit(c) ==
    /\ tasks[c].pc = "audit"
    /\ tasks[c].fn = "searchPatron"
    /\ \/ Caught(c, "audit", "Failed to search patron") /\ UNCHANGED db
       \/ \E data \in {tasks[c].result.data} :
            /\ db' = [db EXCEPT !.audit_logs = Append(@,
                         [user_id |-> tasks[c].session.id, role |-> "USER",
                          action |-> IF data # <<>> THEN "Searched patron (Found)"
                                     ELSE "Searched patron (Not Found)",
                          details |-> <<tasks[c].args.name, tasks[c].args.dob>>])]
            /\ tasks' = [tasks EXCEPT ![c].pc = "done", ![c].queries = @ + 1,
                            ![c].audits = @ + 1,
                            ![c].result = [kind |-> "data", data |-> data]]
    /\ UNCHANGED <<now, tz, engine, op, arg, ret, earlier, started, scanner>>

\* the caller has the result and may call again
ServerActionReturns(c) ==
    /\ tasks[c].pc = "done"
    /\ tasks' = [tasks EXCEPT ![c] = IdleTask]
    /\ UNCHANGED <<now, tz, engine, op, arg, ret, earlier, db, started, scanner>>

InitPatrons ==
    /\ now = RefNow \o <<0>>
    /\ tz \in TzOffsets
    /\ engine = "v8"
    /\ op = "idle"
    /\ arg = <<>>
    /\ ret = <<>>
    /\ earlier = NoCall
    /\ NoServerCalls
    /\ scanner = NoScanner

NextPatrons ==
    \E c \in Callers :
        \/ StartAddPatron(c)
        \/ AddPatronSelect(c)
        \/ AddPatronInsert(c)
        \/ AddPatronAudit(c)
        \/ StartSearchPatron(c)
        \/ SearchPatronSelect(c)
        \/ SearchPatronAudit(c)
        \/ ServerActionReturns(c)

SpecPatrons == InitPatrons /\ [][NextPatrons]_vars

(***************************************************************************)
(* The ID scanner component.  An event (a click, a promise settling, a     *)
(* timer firing) is one step, and the component has re-rendered before the *)
(* next: a handler sees the state of the render it was made in.  Setting   *)
(* the state of an unmounted component does nothing, while promises and    *)
(* timers it has set going still settle and fire.                          *)
(***************************************************************************)
\* what performOCR resolves to; "" is a missing value, null or ''
ScanRecords ==
    {[name |-> n, dateOfBirth |-> d, isAdult |-> a, confidence |-> 90] :
        n \in {"", "JANE CITIZEN"}, d \in {"", "1990-05-15"}, a \in BOOLEAN}

\* the scanner as IDScanner's first render and its effect leave it: the state
\* hooks at their initial values, and startCamera() called
MountedScanner == [NoScanner EXCEPT !.mounted = TRUE, !.pendingMedia = 1]

\* a state update: nothing when the component is unmounted
SetState(s, updated) == IF s.mounted THEN updated ELSE s

\* startCamera() up to its await
startCamera(s) == [s EXCEPT !.pendingMedia = @ + 1]

\* stopCamera() of a render whose stream is `stream` (0: null)
stopCamera(s, stream) ==
    IF stream # 0
    THEN SetState([s EXCEPT !.live = @ \ {stream}], [s EXCEPT !.live = @ \ {stream},
                                                             !.stream = 0])
    ELSE s

\* retake()
retake(s) ==
    startCamera(SetState(s, [s EXCEPT !.capturedImage = FALSE, !.scanResult = <<>>,
                                      !.error = ""]))

\* a failure handler that always retakes
handleScanFailure_NoLimit(s, attempts, msg) ==
    [SetState(s, [s EXCEPT !.attempts = attempts + 1, !.error = msg])
        EXCEPT !.timers = @ \cup {"retake"}, !.scheduled = Append(@, "retake")]

\* handleScanFailure(msg) of a render whose attempts is `attempts`; scheduled
\* is the list of the timers set so far
handleScanFailure(s, attempts, msg) ==
    IF attempts + 1 >= 3
    THEN [SetState(s, [s EXCEPT !.attempts = attempts + 1,
                                !.error = msg \o " Please enter details manually."])
             EXCEPT !.timers = @ \cup {"close"}, !.scheduled = Append(@, "close")]
    ELSE [SetState(s, [s EXCEPT !.attempts = attempts + 1, !.error = msg])
             EXCEPT !.timers = @ \cup {"retake"}, !.scheduled = Append(@, "retake")]

\* The parent takes the scanner off the page: the cleanup of the mount effect
\* runs stopCamera() of the first render, whose stream is null.
Unmounted(s) == [stopCamera(s, 0) EXCEPT !.mounted = FALSE]

\* onClose(), which is () => setShowScanner(false)
onClose(s) == [(IF s.mounted THEN Unmounted(s) ELSE s) EXCEPT !.closes = @ + 1]

ScannerStep(s) ==
    /\ scanner' = s
    /\ UNCHANGED <<now, tz, engine, op, arg, ret, earlier, db, tasks, started>>

\* getUserMedia resolves: setStream(mediaStream), srcObject, setError(null)
MediaResolves ==
    /\ scanner.pendingMedia > 0
    /\ \E mediaStream \in {Least((1..(Cardinality(scanner.live) + 1)) \ scanner.live)} :
         \E s \in {[scanner EXCEPT !.pendingMedia = @ - 1, !.live = @ \cup {mediaStream}]} :
            ScannerStep(SetState(s, [s EXCEPT !.stream = mediaStream, !.error = ""]))

\* getUserMedia rejects: setError('Unable to access camera...')
MediaRejects ==
    /\ scanner.pendingMedia > 0
    /\ \E s \in {[scanner EXCEPT !.pendingMedia = @ - 1]} :
          ScannerStep(SetState(s, [s EXCEPT !.error =
              "Unable to access camera. Please grant camera permissions."]))

\* the capture button, shown without a captured image and enabled with a
\* stream: captureImage() up to the await in processImage
Capture ==
    /\ scanner.mounted
    /\ ~scanner.capturedImage
    /\ scanner.stream # 0
    /\ ~scanner.isProcessing
    /\ ScannerStep([stopCamera([scanner EXCEPT !.capturedImage = TRUE], scanner.stream)
                      EXCEPT !.isProcessing = TRUE, !.error = "",
                             !.ocr = <<[attempts |-> scanner.attempts]>>])

\* performOCR resolves, or the import of the OCR module rejects: the rest of
\* processImage, run with the attempts of the render the capture was made in
OcrSettles ==
    /\ scanner.ocr # <<>>
    /\ \E attempts \in {scanner.ocr[1].attempts} :
         \E s \in {[scanner EXCEPT !.ocr = <<>>]} :
            \/ \E result \in ScanRecords :
                 \E after \in {IF result.name # "" /\ result.dateOfBirth # ""
                               THEN SetState(s, [s EXCEPT !.scanResult = <<result>>])
                               ELSE handleScanFailure(s, attempts,
                                        "Could not clearly read details. Please try again or enter manually.")} :
                    ScannerStep(SetState(after, [after EXCEPT !.isProcessing = FALSE]))
            \/ \E after \in {handleScanFailure(s, attempts,
                                 "Processing error. Please try again.")} :
                    ScannerStep(SetState(after, [after EXCEPT !.isProcessing = FALSE]))

\* the timer of the first or second failure fires: retake()
RetakeTimerFires ==
    /\ "retake" \in scanner.timers
    /\ ScannerStep(retake([scanner EXCEPT !.timers = @ \ {"retake"}]))

\* the timer of the third failure fires: onClose()
CloseTimerFires ==
    /\ "close" \in scanner.timers
    /\ ScannerStep(onClose([scanner EXCEPT !.timers = @ \ {"close"}]))

\* the Retake button of the review screen
UserRetakes ==
    /\ scanner.mounted
    /\ scanner.scanResult # <<>> /\ scanner.capturedImage
    /\ ScannerStep(retake(scanner))

\* the Confirm button of the review screen: confirmScan(), and the parent's
\* handleScanComplete takes the scanner off the page
UserConfirms ==
    /\ scanner.mounted
    /\ scanner.scanResult # <<>> /\ scanner.capturedImage
    /\ ScannerStep(Unmounted([scanner EXCEPT !.completed = Append(@,
           [name |-> scanner.scanResult[1].name,
            dateOfBirth |-> scanner.scanResult[1].dateOfBirth,
            isAdult |-> scanner.scanResult[1].isAdult])]))

\* the X button of the scanning screen, which the Processing overlay covers
UserCloses ==
    /\ scanner.mounted
    /\ ~(scanner.scanResult # <<>> /\ scanner.capturedImage)
    /\ ~scanner.isProcessing
    /\ ScannerStep(onClose(scanner))

\* the page that holds the scanner is left
PageLeft ==
    /\ scanner.mounted
    /\ ScannerStep(Unmounted(scanner))

InitScanner ==
    /\ now = RefNow \o <<0>>
    /\ tz = 0
    /\ engine = "v8"
    /\ op = "idle"
    /\ arg = <<>>
    /\ ret = <<>>
    /\ earlier = NoCall
    /\ NoServerCalls
    /\ scanner = MountedScanner

NextScanner ==
    \/ MediaResolves
    \/ MediaRejects
    \/ Capture
    \/ OcrSettles
    \/ RetakeTimerFires
    \/ CloseTimerFires
    \/ UserRetakes
    \/ UserConfirms
    \/ UserCloses
    \/ PageLeft

SpecScanner == InitScanner /\ [][NextScanner]_vars

(***************************************************************************)
(* The claims about the extractor's contract                               *)
(***************************************************************************)
\* one of the two entry points of the extractor has just been called
ExtractorCalled == op \in {"parseIDCardData", "parseIDCardDataWithPosition"}

\* the call passed a token list (text-only parsing takes none)
TokensGiven == op = "parseIDCardData" \/ arg.textBlocks.defined

\* the call passed an empty token list, or was text-only
NoTokens == op = "parseIDCardData" \/ arg.textBlocks = [defined |-> TRUE, list |-> <<>>]

\* the text is empty or whitespace only; the text has no digit
BlankText(text) == \A i \in 1..Len(text) : \A j \in 1..Len(text[i]) : text[i][j] \in Space
NoDigits(text) == \A i \in 1..Len(text) : \A j \in 1..Len(text[i]) : text[i][j] \notin Digit

C2_NeverThrows == ExtractorCalled => ret # Thrown

\* C3: in every record an entry point returns (the extractor's and
\* performOCR's), isAdult is a boolean, and it is false when dateOfBirth is
\* null.
C3_NoDateOfBirthNotAdult ==
    ((ExtractorCalled \/ op = "performOCR") /\ ret.kind = "record") =>
        /\ ret.isAdult \in BOOLEAN
        /\ ret.dateOfBirth = Null => ret.isAdult = FALSE

\* performOCR has returned a record with a name and without a date of birth
C3_NamedWithoutDate ==
    /\ op = "performOCR"
    /\ arg.response.kind = "ok"
    /\ ret.name # Null
    /\ ret.dateOfBirth = Null
    /\ ret.isAdult = FALSE

\* a record came back from the extractor
RecordReturned == ExtractorCalled /\ ret.kind = "record"

\* the year, month and day a YYYY-MM-DD string spells
FieldsOf(s) ==
    <<ParseInt(SubSeq(s, 1, 4)), ParseInt(SubSeq(s, 6, 7)), ParseInt(SubSeq(s, 9, 10))>>

\* the zero-padded string YYYY-MM-DD of a date
Canonical(y, m, d) == Digits4(y) \o <<"-">> \o Digits2(m) \o <<"-">> \o Digits2(d)

\* C4: every dateOfBirth the extractor returns has the form YYYY-MM-DD, and
\* the date it denotes (the Date the engine makes of it) is not after now and
\* not more than 120 years before now.
C4_DateOfBirthCanonicalAndPlausible ==
    RecordReturned =>
        /\ IsIsoDateForm(ret.dateOfBirth)
        /\ ParseDate(ret.dateOfBirth) # NaN
        /\ ~Before(now, ParseDate(ret.dateOfBirth))
        /\ ~Before(SubSeq(ParseDate(ret.dateOfBirth), 1, 3),
                   <<now[1] - MaxAgeYears, now[2], now[3]>>)

\* a card printed with the date exactly 120 years before today has been
\* scanned at midnight UTC, and the date came back
C4_OldestDateReturned ==
    /\ RecordReturned
    /\ now = <<2024, 5, 15, 0>>
    /\ tz = 0
    /\ ret.dateOfBirth = Canonical(1904, 5, 15)

\* C5: every dateOfBirth the extractor returns is a real calendar date: its
\* month is 1..12 and its day exists in that month of that year.
C5_DateOfBirthIsCalendarDate ==
    RecordReturned =>
        /\ IsIsoDateForm(ret.dateOfBirth)
        /\ FieldsOf(ret.dateOfBirth)[2] \in 1..12
        /\ FieldsOf(ret.dateOfBirth)[3] \in
               1..DaysInMonth(FieldsOf(ret.dateOfBirth)[1], FieldsOf(ret.dateOfBirth)[2])

\* C6: for every day d, month m and 4-digit year y, normalizing d<sep>m<sep>y
\* and y<sep>m<sep>d (sep any of - / ., the day and month padded or not) both
\* yield the zero-padded YYYY-MM-DD, and a canonical string comes back
\* unchanged.
C6_NormalizeIsDayFirstAndCanonical ==
    op = "normalizeDateFormat" =>
        /\ ret = Canonical(arg.year, arg.month, arg.day)
        /\ (arg.order = "ymd" /\ arg.sep = "-" /\ arg.padded) => ret = arg.dateStr

\* "5.5.1990" has been normalized to "1990-05-05"
C6_UnpaddedDayFirst ==
    /\ op = "normalizeDateFormat"
    /\ arg.dateStr = <<"5",".","5",".","1","9","9","0">>
    /\ ret = <<"1","9","9","0","-","0","5","-","0","5">>

\* the age the specification's algorithm gives: the difference of the years,
\* less one when (today.month, today.day) < (dob.month, dob.day)
ClaimedAge(dob, today) ==
    today[1] - dob[1]
    - (IF Before(<<today[2], today[3]>>, <<dob[2], dob[3]>>) THEN 1 ELSE 0)

\* C7: for every date of birth and every now, the age is now.year - dob.year,
\* less one exactly when (now.month, now.day) < (dob.month, dob.day), the
\* date of birth being the one the string spells and now the local date.
C7_AgeByCalendarFields ==
    op = "calculateAge" => ret = ClaimedAge(FieldsOf(arg.dobString), ToLocal(now))

\* C8: no name the extractor returns, in spatial or text-only mode, equals or
\* contains (upper-cased and trimmed) an entry of the exclusion dictionary; in
\* particular DRIVER LICENCE is never returned.
C8_NameNotExcluded ==
    RecordReturned =>
        /\ ~isExcluded(ret.name, excludeList)
        /\ ret.name # Join(<<Word.DRIVER, Word.LICENCE>>)

\* C9: every name the extractor returns, in spatial or text-only mode, passes
\* the name validator.
C9_NameIsValid == RecordReturned => isValidName(ret.name)

\* the spatial parser makes no name of its own: no tokens, none in the name
\* region, or no name left after assembly, exclusion and the word filter
NoSpatialName(text, textBlocks) ==
    \/ ~textBlocks.defined
    \/ textBlocks.list = <<>>
    \/ NameRegionOf(textBlocks.list) = <<>>
    \/ \A sorted \in SortOutcomes(NameRegionOf(textBlocks.list)) :
           SpatialName(text, sorted) = <<>>

\* C10: whenever the spatial parser makes no name of its own or no date of
\* birth is found, the result is exactly that of text-only parsing of the text.
C10_FallbackIsTextOnly ==
    (/\ op = "parseIDCardDataWithPosition"
     /\ \/ NoSpatialName(arg.text, arg.textBlocks)
        \/ extractDateOfBirth(TextLines(arg.text)).value = Null)
    => ret = parseIDCardData(arg.text)

(***************************************************************************)
(* The claims about the passes of the text-only parser, the OCR client,    *)
(* the server actions and the OCR route                                    *)
(***************************************************************************)
\* the call in progress has the entry point, the arguments and the instant of
\* the call noted earlier
SameCallAgain ==
    /\ ExtractorCalled
    /\ earlier.op = op
    /\ earlier.arg = arg
    /\ earlier.now = now

LabeledLines(lines) == {i \in 1..Len(lines) : LabeledName(lines[i]) # Null}

\* the lines i that make a name with line i + 1 in Pattern 1.5
PairLines(lines) == {i \in 1..(Len(lines) - 1) : PairName(lines[i], lines[i + 1]) # Null}

\* the candidates of the contextual scoring; the lines with a Title Case name
CandidateLines(lines) == {i \in 1..Len(lines) : IsCandidate(lines, i)}
TitleLines(lines) == {i \in 1..Len(lines) : TitleName(lines[i]) # Null}

\* C12: the name passes are tried in fixed order and the first success wins:
\* a labeled name gives the first such value with confidence 90, even when a
\* two-line pair is present; the pair (95) is used only if no labeled match
\* succeeds, contextual scoring only if no pair succeeds, and the Title Case
\* scan (70) only if contextual scoring has no candidate.
C12_PassesInFixedOrder ==
    op = "extractName" =>
        IF LabeledLines(arg.lines) # {}
        THEN ret = [value |-> LabeledName(arg.lines[Least(LabeledLines(arg.lines))]),
                    confidenceX4 |-> 4 * 90]
        ELSE IF PairLines(arg.lines) # {}
        THEN /\ ret.confidenceX4 = 4 * 95
             /\ \E i \in PairLines(arg.lines) :
                    ret.value = arg.lines[i] \o <<" ">> \o arg.lines[i + 1]
        ELSE IF CandidateLines(arg.lines) # {}
        THEN /\ ret.confidenceX4 <= 4 * 85
             /\ \E i \in CandidateLines(arg.lines) : ret.value = arg.lines[i]
        ELSE IF TitleLines(arg.lines) # {}
        THEN ret = [value |-> TitleName(arg.lines[Least(TitleLines(arg.lines))]),
                    confidenceX4 |-> 4 * 70]
        ELSE ret = NoResult

\* a card with a two-line pair above its labeled name has been read, and the
\* labeled name came back with confidence 90
C12_LabeledBeatsPair ==
    /\ op = "extractName"
    /\ LabeledLines(arg.lines) # {}
    /\ PairLines(arg.lines) # {}
    /\ Least(PairLines(arg.lines)) < Least(LabeledLines(arg.lines))
    /\ ret.value = <<"S","M","I","T","H"," ","M","A","R","Y">>
    /\ ret.confidenceX4 = 4 * 90

\* the lines i of the two-line pass as the specification words it: lines i
\* and i + 1 each match ^[A-Z]{2,}$, the combination passes the name
\* validator, and neither line nor the combination is excluded
ClaimedPairLines(lines) ==
    {i \in 1..(Len(lines) - 1) :
        /\ IsCapsWord(lines[i]) /\ IsCapsWord(lines[i + 1])
        /\ isValidName(lines[i] \o <<" ">> \o lines[i + 1])
        /\ ~isExcluded(lines[i], excludeList)
        /\ ~isExcluded(lines[i + 1], excludeList)
        /\ ~isExcluded(lines[i] \o <<" ">> \o lines[i + 1], excludeList)}

\* C13: when no labeled name exists, the name is 'L_i L_(i+1)' for the
\* smallest i of the two-line pass, with confidence 95 (and the pass yields
\* nothing when there is no such i), so that an excluded single-word line
\* such as VICTORIA is never one half of the returned name.
C13_FirstValidPairIsName ==
    (op = "extractName" /\ LabeledLines(arg.lines) = {}) =>
        /\ ClaimedPairLines(arg.lines) # {} =>
               ret = [value |-> arg.lines[Least(ClaimedPairLines(arg.lines))] \o <<" ">>
                                \o arg.lines[Least(ClaimedPairLines(arg.lines)) + 1],
                      confidenceX4 |-> 4 * 95]
        /\ ClaimedPairLines(arg.lines) = {} => ret.confidenceX4 # 4 * 95
        /\ \A i \in 1..(Len(arg.lines) - 1) :
               ret.value = arg.lines[i] \o <<" ">> \o arg.lines[i + 1] =>
                   /\ ~isExcluded(arg.lines[i], excludeList)
                   /\ ~isExcluded(arg.lines[i + 1], excludeList)

\* Scenario B has been read: VICTORIA, JANE, CITIZEN and the date line gave
\* JANE CITIZEN, the pair of the second and third line
C13_ScenarioB ==
    /\ op = "extractName"
    /\ arg.lines = ScenarioB
    /\ ret = [value |-> L_JANE_CITIZEN, confidenceX4 |-> 4 * 95]

\* C14: performOCR never rejects: when the request returns a non-ok response
\* or the network call fails (or the answer cannot be read), it resolves to
\* exactly {name: null, dateOfBirth: null, idNumber: null, confidence: 0,
\* isAdult: false}.
C14_PerformOCRNeverRejects ==
    op = "performOCR" =>
        /\ ret # Thrown
        /\ ret.kind = "record"
        /\ arg.response.kind # "ok" => ret = AllNullRecord

\* the route answered 500 and performOCR resolved to the all-null record
C14_NotOkResolved ==
    /\ op = "performOCR"
    /\ arg.response.kind = "notOk"
    /\ ret = AllNullRecord

\* C15: an audit-log failure does not break the main operation: when addPatron
\* has inserted the patron row and its audit-log insert then fails, addPatron
\* reports success; when searchPatron's audit-log insert fails, searchPatron
\* returns the search data.
C15_AuditFailureKeepsResult ==
    \A c \in Callers :
        (tasks[c].pc = "done" /\ tasks[c].failedAt = "audit") =>
            IF tasks[c].fn = "addPatron"
            THEN /\ tasks[c].result.kind = "success"
                 /\ \E i \in 1..Len(db.excluded_persons) :
                       db.excluded_persons[i].patron_id = tasks[c].args.patron_id
            ELSE tasks[c].result.kind = "data"

C17_TextOnlyConfidence ==
    op = "parseIDCardData" =>
        Let(TextLines(arg.text), LAMBDA lines :
            /\ ret = NullResult <=> (extractName(lines).value = Null
                                       \/ extractDateOfBirth(lines).value = Null)
            /\ ret # NullResult =>
                  /\ ret.confidence
                        = 40 + 40 + (IF extractIDNumber(lines).value # Null THEN 20 ELSE 0)
                  /\ ret.confidence \in {80, 100}
                  /\ ret.idNumber = extractIDNumber(lines).value)

\* a record with an id number: confidence 100, the name's own confidence not
C17_RecordWithId ==
    /\ op = "parseIDCardData"
    /\ ret # NullResult
    /\ ret.idNumber # Null
    /\ ret.confidence = 100
    /\ extractName(TextLines(arg.text)).confidenceX4 # 400

\* the score of the candidate line i (counted from 1) as the specification
\* words it, its index in the text being i - 1
ClaimedScore(lines, i) ==
    100
    + (IF \E j \in 1..(i - 1) : IsHeaderLine(lines[j]) THEN 30 ELSE 0)
    - (IF i - 1 < 2 THEN 40 ELSE 0)
    + (IF Len(WordsOfLen(SplitWS(lines[i]), 1)) = 2 THEN 20 ELSE 0)
    + (IF Len(WordsOfLen(SplitWS(lines[i]), 1)) = 3 THEN 10 ELSE 0)
    + (IF \E j \in (i + 1)..Len(lines) : IsDataLine(lines[j]) THEN 20 ELSE 0)
    + (IF 2 <= i - 1 /\ i - 1 <= 5 THEN 15 ELSE 0)

\* the candidates no other candidate beats: a higher score, or the same score
\* on an earlier line
ClaimedBest(lines) ==
    {i \in CandidateLines(lines) : \A j \in CandidateLines(lines) :
        \/ ClaimedScore(lines, i) > ClaimedScore(lines, j)
        \/ (ClaimedScore(lines, i) = ClaimedScore(lines, j) /\ i <= j)}

\* C18: when the contextual scoring is reached and has candidates, the name
\* is the candidate line with the highest score, the earliest among equal
\* scores, the score being 100 + 30 (header keyword on an earlier line) - 40
\* (index < 2) + 20 (2 words) + 10 (3 words) + 20 (data keyword or date on a
\* later line) + 15 (index 2..5); its confidence is min(85, 50 + score / 4),
\* between 65 and 85.
C18_HighestScoreWins ==
    (/\ op = "extractName"
     /\ LabeledLines(arg.lines) = {}
     /\ PairLines(arg.lines) = {}
     /\ CandidateLines(arg.lines) # {}) =>
        /\ Cardinality(ClaimedBest(arg.lines)) = 1
        /\ \A i \in ClaimedBest(arg.lines) :
              /\ ret.value = arg.lines[i]
              /\ ret.confidenceX4 = Min(4 * 85, 4 * 50 + ClaimedScore(arg.lines, i))
        /\ 4 * 65 <= ret.confidenceX4
        /\ ret.confidenceX4 <= 4 * 85

\* two candidates had the same, highest score, the later one another name,
\* and the earlier one was returned
C18_EarliestOfEquals ==
    /\ op = "extractName"
    /\ LabeledLines(arg.lines) = {}
    /\ PairLines(arg.lines) = {}
    /\ \E i \in ClaimedBest(arg.lines), j \in CandidateLines(arg.lines) :
          /\ i < j
          /\ ClaimedScore(arg.lines, i) = ClaimedScore(arg.lines, j)
          /\ arg.lines[i] # arg.lines[j]
          /\ ret.value = arg.lines[i]
          /\ ret.confidenceX4 < 4 * 85

\* the valid dates the pattern k (1 labeled, 2 bare day-first, 3 ISO order)
\* yields on the lines
DatesOfPattern(lines, k) ==
    {DobCandidate(lines[i], k) : i \in 1..Len(lines)} \ {Null}

\* C19: the priority of the date-of-birth patterns holds over the whole
\* input: when some line carries a labeled date that normalizes and
\* validates, the returned date is a labeled date, even when an earlier line
\* has a valid bare date; a date in ISO order is returned only when no
\* labeled or bare day-first date validates on any line.
C19_LabeledDateFirstOverall ==
    op = "extractDateOfBirth" =>
        /\ DatesOfPattern(arg.lines, 1) # {} =>
               ret.value \in DatesOfPattern(arg.lines, 1)
        /\ (DatesOfPattern(arg.lines, 1) \cup DatesOfPattern(arg.lines, 2)) # {} =>
               ret.value \in DatesOfPattern(arg.lines, 1) \cup DatesOfPattern(arg.lines, 2)

\* the names the spatial assembly can give for the call's text and tokens,
\* one for each order the sort can leave the name-region tokens in
SpatialNames ==
    IF ~arg.textBlocks.defined \/ Len(arg.textBlocks.list) = 0 THEN {}
    ELSE Let(NameRegionOf(arg.textBlocks.list), LAMBDA region :
             IF Len(region) = 0 THEN {}
             ELSE {SpatialName(arg.text, sorted) : sorted \in SortOutcomes(region)}
                  \ {<<>>})

\* C20: whenever the spatial parser returns its own spatially assembled name,
\* the confidence is exactly 90, with or without an id number, and
\* dateOfBirth and idNumber are the values the text-only extractors give on
\* all lines of the text.
C20_SpatialSuccessRecord ==
    (/\ op = "parseIDCardDataWithPosition"
     /\ ret # Thrown
     /\ ret # NullResult
     /\ ret.name \in SpatialNames
     /\ extractDateOfBirth(TextLines(arg.text)).value # Null) =>
        /\ ret.confidence = 90
        /\ ret.dateOfBirth = extractDateOfBirth(TextLines(arg.text)).value
        /\ ret.idNumber = extractIDNumber(TextLines(arg.text)).value

\* a text without a name but with an id number, and tokens that gave a name:
\* the record has the id number and confidence 90
C20_SpatialWithId ==
    /\ op = "parseIDCardDataWithPosition"
    /\ ret # Thrown
    /\ ret # NullResult
    /\ ret.name \in SpatialNames
    /\ parseIDCardData(arg.text) = NullResult
    /\ ret.idNumber # Null
    /\ ret.confidence = 90

\* C26: the 18-year gate of date validation agrees with the age calculator:
\* for every date and every 'now', leap days included, a date the validation
\* accepts has calculateAge >= 18 at the same 'now', so that every record
\* parseIDCardData returns has isAdult = true.
C26_AcceptedDateIsAdult ==
    (op = "parseIDCardData" /\ ret # NullResult) =>
        /\ calculateAge(ret.dateOfBirth) >= 18
        /\ ret.isAdult

(***************************************************************************)
(* The claims about the visual lines, the date gate, the server actions    *)
(* under concurrency and the scanner                                       *)
(***************************************************************************)
\* the visual line the token stands in: every token has a text of its own
LineOf(lines, block) == CHOOSE l \in 1..Len(lines) : Includes(lines[l].text, block.text)

TracedCall == op = "parseIDCardDataWithPosition, logged"

\* C21 as the specification states it: two consecutive tokens of the sorted
\* name region stand in the same VisualLine iff their vertical positions
\* differ by less than 10 pixels; a token 10 or more apart starts a new line.
C21_ConsecutiveWithinTen ==
    TracedCall =>
        \A i \in 1..(Len(ret.sorted) - 1) :
            LineOf(ret.lines, ret.sorted[i]) = LineOf(ret.lines, ret.sorted[i + 1])
                <=> Abs(ret.sorted[i + 1].y - ret.sorted[i].y) < 10

\* C21, amended: a token of the sorted name region stands in the VisualLine
\* of the token before it iff its vertical position differs by at most 10
\* pixels from the line's y, which is the position of the line's first
\* token; a token more than 10 pixels from it starts a new VisualLine.
C21_WithinTenOfLineStart ==
    TracedCall =>
        /\ ret.lines[1].y = ret.sorted[1].y
        /\ \A i \in 1..(Len(ret.sorted) - 1) :
              LET before == LineOf(ret.lines, ret.sorted[i])
                  line == LineOf(ret.lines, ret.sorted[i + 1])
              IN  /\ line = before
                        <=> Abs(ret.sorted[i + 1].y - ret.lines[before].y) <= 10
                  /\ line # before =>
                        line = before + 1 /\ ret.lines[line].y = ret.sorted[i + 1].y

\* a token exactly 10 pixels below the first token of its line, and a token
\* less than 10 pixels below the token before it that starts a new line
C21_TenApartSameLine ==
    /\ TracedCall
    /\ Len(ret.sorted) = 3
    /\ ret.sorted[2].y - ret.sorted[1].y = 10
    /\ LineOf(ret.lines, ret.sorted[1]) = LineOf(ret.lines, ret.sorted[2])
    /\ ret.sorted[3].y - ret.sorted[2].y < 10
    /\ LineOf(ret.lines, ret.sorted[3]) # LineOf(ret.lines, ret.sorted[2])

\* C22: within every VisualLine the spatial parser builds, the tokens stand
\* in left-to-right order (non-decreasing x), for every set of name-region
\* token positions.
C22_LinesLeftToRight ==
    TracedCall =>
        \A i, j \in 1..Len(ret.sorted) :
            (i < j /\ LineOf(ret.lines, ret.sorted[i]) = LineOf(ret.lines, ret.sorted[j]))
                => ret.sorted[i].x <= ret.sorted[j].x

\* the visual line has a word that is a word of the spatial name
Contributes(line) ==
    \E i \in 1..Len(SplitWS(line.text)), j \in 1..Len(SplitWS(ret.validName)) :
        SplitWS(line.text)[i] = SplitWS(ret.validName)[j]

\* C23: a visual line with more than 3 words of length >= 2 never
\* contributes to the spatial name, and no line beyond a vertical gap of
\* more than 20 pixels from the retained line before it contributes; so in a
\* two-line spatial name the second line's y is at most 20 pixels below the
\* first line's y.
C23_NameBlockBoundary ==
    TracedCall =>
        /\ \A l \in 1..Len(ret.lines) :
              Len(WordsOfLen(SplitWS(ret.lines[l].text), 2)) > 3
                  => ~Contributes(ret.lines[l])
        /\ LET retained == SelectSeq(ret.lines,
                               LAMBDA line : Len(WordsOfLen(SplitWS(line.text), 2)) <= 3)
           IN  /\ \A k \in 2..Len(retained) :
                     (\E j \in 1..(k - 1) : retained[j + 1].y - retained[j].y > 20)
                         => ~Contributes(retained[k])
               /\ \A k, m \in 1..Len(retained) :
                     (k < m /\ Contributes(retained[k]) /\ Contributes(retained[m]))
                         => retained[m].y - retained[k].y <= 20

\* a name of two lines exactly 20 pixels apart has been returned
C23_TwoLinesTwentyApart ==
    /\ TracedCall
    /\ Len(ret.lines) = 2
    /\ Len(ret.finalNameLines) = 2
    /\ ret.finalNameLines[2].y - ret.finalNameLines[1].y = 20
    /\ ret.validName = T_JANE \o <<" ">> \o T_CITIZEN
    /\ ret.result.name = ret.validName

\* the first retained visual line has two words or more and is a line of the
\* text, and the text line after it holds a D-M-YYYY date written with one of
\* the separators seps
DateBelowName(seps) ==
    /\ ret.finalNameLines # <<>>
    /\ Len(WordsOfLen(SplitWS(ret.finalNameLines[1].text), 2)) >= 2
    /\ \E i \in 1..(Len(TextLines(arg.text)) - 1) :
          /\ TextLines(arg.text)[i] = ret.finalNameLines[1].text
          /\ DatePatMatch(TextLines(arg.text)[i + 1], <<2, 1>>, <<2, 1>>, <<4>>, seps) # <<>>

\* C24: when the first retained visual line has two valid words or more and
\* the text line right after it in the full text holds a date pattern (a
\* D-M-YYYY date as the Date Normalizer accepts it, separators - / or .), the
\* spatial candidate is rejected and the result is the text-only result.
C24_DateBelowRejects ==
    (TracedCall /\ DateBelowName({"-", "/", "."})) =>
        /\ ret.validName = <<>>
        /\ ret.result = parseIDCardData(arg.text)

Conflicting(f, g) ==
    \/ f.patron_id = g.patron_id
    \/ (ToUpper(f.name) = ToUpper(g.name) /\ f.dob = g.dob)

\* C27: no duplicate patrons under concurrency: after any interleaving of
\* concurrent addPatron calls by authenticated users, excluded_persons never
\* has two rows with the same patron_id or the same (case-insensitive name,
\* dob) pair, and at most one of two conflicting calls reports success.
C27_NoDuplicatePatrons ==
    /\ \A i, j \in 1..Len(db.excluded_persons) :
          i < j => ~Conflicting(db.excluded_persons[i], db.excluded_persons[j])
    /\ (/\ tasks["c1"].pc = "done" /\ tasks["c1"].fn = "addPatron"
        /\ tasks["c2"].pc = "done" /\ tasks["c2"].fn = "addPatron"
        /\ tasks["c1"].session.kind = "user" /\ tasks["c2"].session.kind = "user"
        /\ Conflicting(tasks["c1"].args, tasks["c2"].args))
           => ~(tasks["c1"].result.kind = "success" /\ tasks["c2"].result.kind = "success")

\* C30: unauthenticated calls touch nothing: addPatron and searchPatron
\* called without an authenticated session return {error: 'Unauthorized'}
\* and make no database query (no patron row read or inserted, no audit-log
\* row written); every successful add or search by an authenticated user,
\* who has a user id, writes exactly one audit-log row.
C30_UnauthorizedTouchesNothing ==
    \A c \in Callers :
        tasks[c].pc = "done" =>
            /\ tasks[c].session.kind = "none" =>
                  /\ tasks[c].result = [kind |-> "error", error |-> "Unauthorized"]
                  /\ tasks[c].queries = 0
                  /\ tasks[c].audits = 0
            /\ (/\ tasks[c].session.kind = "user"
                /\ tasks[c].session.id # ""
                /\ tasks[c].result.kind \in {"success", "data"}) =>
                  /\ tasks[c].audits = 1
                  /\ \E k \in 1..Len(db.audit_logs) :
                        db.audit_logs[k].user_id = tasks[c].session.id
            /\ tasks[c].result.kind \in {"success", "data"} =>
                  tasks[c].session.kind = "user"

\* one caller has added a patron and written its audit-log row, and the
\* other, without a session, has been refused without a query
C30_RefusedBesideSuccess ==
    /\ tasks["c1"].pc = "done"
    /\ tasks["c1"].result.kind = "success"
    /\ tasks["c1"].audits = 1
    /\ tasks["c2"].pc = "done"
    /\ tasks["c2"].session.kind = "none"
    /\ tasks["c2"].queries = 0
    /\ Len(db.excluded_persons) = 1
    /\ Len(db.audit_logs) = 1

\* C28: once the scanner has been closed (taken off the page, by onClose or
\* otherwise), no camera stream is live, whichever way the closing, a pending
\* retake timer and a pending getUserMedia request interleave.
C28_ClosedScannerHoldsNoCamera ==
    ~scanner.mounted => scanner.live = {}

\* C29: every failed scan adds one to attempts; the first and the second
\* failure schedule a retake and the third schedules onClose, so a scanner
\* session sees at most three failed scans; onScanComplete is called only on
\* the user's confirmation, with a non-empty name and date of birth.
C29_RetryBound ==
    /\ Len(scanner.scheduled) <= 3
    /\ \A k \in 1..Len(scanner.scheduled) :
          scanner.scheduled[k] = IF k < 3 THEN "retake" ELSE "close"
    /\ scanner.mounted => scanner.attempts = Len(scanner.scheduled)
    /\ Len(scanner.completed) <= 1
    /\ \A k \in 1..Len(scanner.completed) :
          /\ scanner.completed[k].name # ""
          /\ scanner.completed[k].dateOfBirth # ""
          /\ ~scanner.mounted
    \* a mounted scanner that shows a failed capture is waiting for its timer
    /\ (scanner.mounted /\ scanner.capturedImage /\ scanner.ocr = <<>>
            /\ scanner.scanResult = <<>>)
         => /\ scanner.attempts \in 1..3
            /\ scanner.timers = IF scanner.attempts < 3 THEN {"retake"} ELSE {"close"}

\* the third scan of a session has failed and the scanner is about to close
C29_ThirdFailureCloses ==
    /\ scanner.mounted
    /\ scanner.attempts = 3
    /\ Len(scanner.scheduled) = 3
    /\ "close" \in scanner.timers
    /\ scanner.closes = 0

====
